---- MODULE Spec2Model ----
(***************************************************************************)
(* TeamQuery python service: the in-memory HNSW index (hnsw_node.py,       *)
(* hnsw_index.py), its permission filter, and the search service that      *)
(* queries it.                                                             *)
(*                                                                         *)
(* Modelling conventions                                                   *)
(*  - Vectors are tuples of integers.  Cosine distance 1 - u.v/(|u||v|) is *)
(*    kept exact as the pair <<sgn(u.v)*(u.v)^2, |u|^2*|v|^2>> (the signed *)
(*    square of the cosine); a distance is smaller iff that fraction is    *)
(*    larger.  Floating point rounding is not modelled.                    *)
(*  - Node ids are uuid4 strings in the code: the model draws a fresh id   *)
(*    from NodeIds, in any order, so heap tie-breaks on ids are arbitrary. *)
(*  - Python iterates a set in an unspecified order; the model iterates    *)
(*    connection sets in ascending id order.                               *)
(*  - np.dot on 1-D arrays of different length raises ValueError: every    *)
(*    distance computation carries that failure (field err).               *)
(***************************************************************************)
EXTENDS Integers, Sequences, FiniteSets, TLC

VARIABLES
    nodes,        \* HNSWIndex.nodes: node id -> node
    nodeOrder,    \* insertion order of the dict HNSWIndex.nodes
    layers,       \* HNSWIndex.layers: level -> set of node ids
    entry_point,  \* HNSWIndex.entry_point
    max_layer,    \* HNSWIndex.max_layer
    size,         \* HNSWIndex.size
    removed,      \* chunk ids for which mark_deleted_by_chunk_id returned True
                  \* and that no later add_node re-inserted
    ret,          \* the last mutator call: whether it raised, and the truth of
                  \* what it returned
    lastSearch,   \* the last search call, until the index is next changed:
                  \* its arguments and what it returned
    dimension,    \* length of the first vector the index accepted (0: none yet)
    call,         \* a call of a pure function: its arguments and its result
    indexes,      \* SearchIndexBuilderService.indexes[T] of one tenant T: <<>>
                  \* when T has no entry, else <<container>>
    lock,         \* the holders of building_locks[T] (an asyncio.Lock)
    store,        \* the external store: T's embedded chunks and its
                  \* lastDataChange / lastIndexUpdate stamps
    disk,         \* the persisted index file of T: <<>> or <<hnsw index>>
    task,         \* the coroutines that call the service: where each one is
                  \* suspended and its local variables
    made          \* how many OrganizationIndexes containers were created

index == <<nodes, nodeOrder, layers, entry_point, max_layer, size>>

mgr == <<indexes, lock, store, disk, task, made>>

vars == <<nodes, nodeOrder, layers, entry_point, max_layer, size, removed, ret,
          lastSearch, dimension, call, indexes, lock, store, disk, task, made>>

\* ------------------------------------------------------------------ bounds

MaxNodes == 4
MaxLevel == 1
MaxSearchNodes == 2
MaxDimNodes == 3
MaxChunkId == 2
MaxTasks == 2
MaxContainers == 3
MaxClock == 1
MaxTenantNodes == 2
MaxBatch == 2
MaxSentences == 3

\* HNSWIndex.__init__ parameter M (default 16); 1 makes pruning happen with
\* four nodes.
M == 1
max_M == M
max_M0 == M * 2
ef_construction == 200

None == "None"
\* entry_point is None
NoneId == 0

NodeIds == 1..MaxNodes
Levels == 0..MaxLevel

\* no search has been made on the index as it is now
NoSearch ==
    [op |-> "none", filters |-> <<>>, raised |-> FALSE, error |-> None,
     results |-> <<>>, denials |-> <<>>, out |-> <<>>]

\* no pure function has been called
NoCall == [fn |-> "none"]

\* -------------------------------------------------------------- helpers

Min(S) == CHOOSE x \in S : \A y \in S : x <= y

Range(s) == {s[i] : i \in DOMAIN s}

\* the element of a singleton: binds a value that is then used many times
Only(S) == CHOOSE x \in S : TRUE

\* np.dot(u, v) for 1-D arrays of equal length: the sum over the first n
\* components
RECURSIVE DotTo(_, _, _)
DotTo(u, v, n) == IF n = 0 THEN 0 ELSE u[n] * v[n] + DotTo(u, v, n - 1)

Dot(u, v) == DotTo(u, v, Len(u))

SignedSquare(d) == IF d < 0 THEN -(d * d) ELSE d * d

\* 1.0 when a norm is zero, else 1 - cosine similarity; kept as the signed
\* squared cosine <<num, den>>
CosOf(d, nu, nv) == IF nu = 0 \/ nv = 0 THEN <<0, 1>> ELSE <<SignedSquare(d), nu * nv>>

\* HNSWNode.distance_to_vector / distance_to
CosDistance(u, v) == CosOf(Dot(u, v), Dot(u, u), Dot(v, v))

\* a < b on distances (a larger cosine is a smaller distance)
DistLT(a, b) == a[1] * b[2] > b[1] * a[2]
DistEQ(a, b) == a[1] * b[2] = b[1] * a[2]

\* np.dot raises when the shapes are not aligned
DimOK(u, v) == Len(u) = Len(v)

\* HNSWNode.get_connections(layer): connections.get(layer, set())
get_connections(n, layer) ==
    IF layer \in DOMAIN n.connections THEN n.connections[layer] ELSE {}

\* HNSWNode.add_connection: only at a layer the node has
add_connection(n, layer, other) ==
    IF layer <= n.max_layer
    THEN [n EXCEPT !.connections[layer] = @ \cup {other}]
    ELSE n

\* HNSWNode.remove_connection
remove_connection(n, layer, other) ==
    IF layer \in DOMAIN n.connections
    THEN [n EXCEPT !.connections[layer] = @ \ {other}]
    ELSE n

\* the distance of every node to ref, as the code computes it once per
\* visited node and keeps it in the heap tuples (aligned shapes only)
DistTable(ns, ref) ==
    [n \in DOMAIN ns |->
        IF DimOK(ns[n].vector, ref) THEN CosDistance(ns[n].vector, ref) ELSE <<0, 1>>]

\* Python's tuple order on (distance, node_id)
TupleLT(dist, a, b) == DistLT(dist[a], dist[b]) \/ (DistEQ(dist[a], dist[b]) /\ a < b)

\* heapq min-heap of (distance, id): the smallest tuple
HeapMin(dist, S) == CHOOSE a \in S : \A b \in S \ {a} : TupleLT(dist, a, b)

\* heapq heap of (-distance, id): its top is the largest distance, and among
\* equal distances the smallest id
WorstOf(dist, S) ==
    CHOOSE a \in S : \A b \in S \ {a} :
        DistLT(dist[b], dist[a]) \/ (DistEQ(dist[a], dist[b]) /\ a < b)

\* sorted(candidates): ascending (distance, id)
RECURSIVE SortedTuples(_, _)
SortedTuples(dist, S) ==
    IF S = {} THEN <<>>
    ELSE <<HeapMin(dist, S)>> \o SortedTuples(dist, S \ {HeapMin(dist, S)})

\* popping the (-distance, id) heap until empty, then reverse(): ascending
\* distance, and among equal distances descending id
RECURSIVE DrainReversed(_, _)
DrainReversed(dist, S) ==
    IF S = {} THEN <<>>
    ELSE DrainReversed(dist, S \ {WorstOf(dist, S)}) \o <<WorstOf(dist, S)>>

\* ------------------------------------------------- HNSWIndex._search_layer

\* the loop over current_node.get_connections(layer), lines 115-133;
\* st = [visited, cand, w, err]
RECURSIVE VisitNeighbors(_, _, _, _, _, _)
VisitNeighbors(ns, q, dist, num_closest, nbrs, st) ==
    IF nbrs = {} \/ st.err THEN st
    ELSE LET nb == Min(nbrs)
             rest == nbrs \ {nb}
         IN  IF nb \in st.visited \/ nb \notin DOMAIN ns
             THEN VisitNeighbors(ns, q, dist, num_closest, rest, st)
             ELSE IF ~DimOK(ns[nb].vector, q)
             THEN [st EXCEPT !.visited = @ \cup {nb}, !.err = TRUE]
             ELSE IF Cardinality(st.w) < num_closest
             THEN VisitNeighbors(ns, q, dist, num_closest, rest,
                      [st EXCEPT !.visited = @ \cup {nb},
                                 !.cand = @ \cup {nb},
                                 !.w = @ \cup {nb}])
             ELSE IF DistLT(dist[nb], dist[WorstOf(dist, st.w)])
             THEN VisitNeighbors(ns, q, dist, num_closest, rest,
                      [st EXCEPT !.visited = @ \cup {nb},
                                 !.cand = @ \cup {nb},
                                 !.w = IF Cardinality(@ \cup {nb}) > num_closest
                                       THEN (@ \cup {nb}) \ {WorstOf(dist, @ \cup {nb})}
                                       ELSE @ \cup {nb}])
             ELSE VisitNeighbors(ns, q, dist, num_closest, rest,
                      [st EXCEPT !.visited = @ \cup {nb}])

\* the while loop over the candidate heap, lines 105-133
RECURSIVE SearchLoop(_, _, _, _, _, _)
SearchLoop(ns, q, dist, num_closest, layer, st) ==
    IF st.cand = {} \/ st.err THEN st
    ELSE LET cur == HeapMin(dist, st.cand)
         IN  IF st.w # {} /\ DistLT(dist[WorstOf(dist, st.w)], dist[cur])
             THEN [st EXCEPT !.cand = @ \ {cur}]
             ELSE SearchLoop(ns, q, dist, num_closest, layer,
                      VisitNeighbors(ns, q, dist, num_closest,
                                     get_connections(ns[cur], layer),
                                     [st EXCEPT !.cand = @ \ {cur}]))

\* the heap w drained into a list, lines 136-142
SearchResult(dist, st) ==
    IF st.err THEN [err |-> TRUE, res |-> <<>>]
    ELSE [err |-> FALSE, res |-> DrainReversed(dist, st.w)]

\* _search_layer(query_vector, entry_points, num_closest, layer):
\* [err, res] with res the node ids best distance first
search_layer(ns, q, entry_points, num_closest, layer) ==
    LET eps == {e \in Range(entry_points) : e \in DOMAIN ns}
    IN  IF \E e \in eps : ~DimOK(ns[e].vector, q)
        THEN [err |-> TRUE, res |-> <<>>]
        ELSE Only({SearchResult(dist,
                       SearchLoop(ns, q, dist, num_closest, layer,
                           [visited |-> eps, cand |-> eps, w |-> eps, err |-> FALSE]))
                   : dist \in {DistTable(ns, q)}})

\* --------------------------------- HNSWIndex._select_neighbors_heuristic

\* the first while loop, lines 171-195; returns <<selected, remaining>>
RECURSIVE HeuristicLoop(_, _, _, _, _)
HeuristicLoop(ns, dist, Mx, selected, remaining) ==
    IF ~(Len(selected) < Mx /\ remaining # <<>>) THEN <<selected, remaining>>
    ELSE LET best_id == Head(remaining)
             Keep(r) == /\ r \in DOMAIN ns
                        /\ DistLT(dist[r], CosDistance(ns[best_id].vector, ns[r].vector))
         IN  IF Tail(remaining) = <<>> THEN <<Append(selected, best_id), <<>>>>
             ELSE HeuristicLoop(ns, dist, Mx, Append(selected, best_id),
                                SelectSeq(Tail(remaining), Keep))

\* the second while loop, lines 198-200
RECURSIVE HeuristicFill(_, _, _)
HeuristicFill(Mx, selected, remaining) ==
    IF Len(selected) < Mx /\ remaining # <<>>
    THEN HeuristicFill(Mx, Append(selected, Head(remaining)), Tail(remaining))
    ELSE selected

\* _select_neighbors_heuristic(candidates, M, layer); candidates are node ids
\* whose distances are taken to ref
select_neighbors_heuristic(ns, candidates, ref, Mx) ==
    IF Len(candidates) <= Mx THEN candidates
    ELSE Only({HeuristicFill(Mx, out[1], out[2]) : out \in
               {Only({HeuristicLoop(ns, dist, Mx, <<>>, SortedTuples(dist, Range(candidates)))
                      : dist \in {DistTable(ns, ref)}})}})

\* ------------------------------------------------------ HNSWIndex.add_node

\* HNSWNode.__init__
NewNode(vector, chunk_id, metadata, level) ==
    [vector |-> vector, chunk_id |-> chunk_id, metadata |-> metadata,
     max_layer |-> level, is_deleted |-> FALSE,
     connections |-> [l \in 0..level |-> {}]]

\* lines 258-261: link the new node and each selected neighbour both ways
RECURSIVE AddConnections(_, _, _, _)
AddConnections(ns, id, lc, selected) ==
    IF selected = <<>> THEN ns
    ELSE LET nb == Head(selected)
         IN  IF nb \in DOMAIN ns
             THEN AddConnections(
                      [ns EXCEPT ![id] = add_connection(@, lc, nb),
                                 ![nb] = add_connection(@, lc, id)],
                      id, lc, Tail(selected))
             ELSE AddConnections(ns, id, lc, Tail(selected))

\* a neighbour that keeps every connection it was given
PruneNeighbor_Unpruned(ns, nb, lc) == ns

\* lines 268-300: prune one neighbour whose degree exceeds max_conn
PruneNeighbor(ns, nb, lc) ==
    LET neighbor_connections == get_connections(ns[nb], lc)
        max_conn == IF lc = 0 THEN max_M0 ELSE max_M
        \* neighbor_candidates, in the set's iteration order
        neighbor_candidates ==
            SortedTuples([n \in DOMAIN ns |-> <<0, 1>>],
                         {c \in neighbor_connections : c \in DOMAIN ns})
        Rewire(new_connections) ==
            [x \in DOMAIN ns |->
                IF x = nb
                THEN [ns[x] EXCEPT !.connections[lc] = new_connections]
                ELSE IF x \in neighbor_connections \ new_connections
                THEN remove_connection(ns[x], lc, nb)
                ELSE IF x \in new_connections
                THEN add_connection(ns[x], lc, nb)
                ELSE ns[x]]
    IN  IF Cardinality(neighbor_connections) > max_conn
        THEN Only({Rewire(new_connections) : new_connections \in
                 {Range(select_neighbors_heuristic(ns, neighbor_candidates,
                                                   ns[nb].vector, max_conn))}})
        ELSE ns

\* lines 264-300: the pruning loop over selected_neighbors, in list order
RECURSIVE PruneNeighbors(_, _, _)
PruneNeighbors(ns, lc, selected) ==
    IF selected = <<>> THEN ns
    ELSE LET nb == Head(selected)
         IN  IF nb \notin DOMAIN ns
             THEN PruneNeighbors(ns, lc, Tail(selected))
             ELSE PruneNeighbors(PruneNeighbor(ns, nb, lc), lc, Tail(selected))

\* lines 243-245: greedy descent from the top layer down to level + 1;
\* st = [ns, cur, err]
RECURSIVE Descend(_, _, _, _)
Descend(st, vector, lc, level) ==
    IF lc <= level \/ st.err THEN st
    ELSE LET r == search_layer(st.ns, vector, st.cur, 1, lc)
         IN  Descend([st EXCEPT !.cur = r.res, !.err = r.err], vector, lc - 1, level)

\* lines 248-302: search and connect from min(level, max_layer) down to 0
RECURSIVE ConnectLayers(_, _, _, _)
ConnectLayers(st, id, vector, lc) ==
    IF lc < 0 \/ st.err THEN st
    ELSE LET Mx == IF lc = 0 THEN max_M0 ELSE max_M
             Wire(selected_neighbors) ==
                 [st EXCEPT !.ns = PruneNeighbors(
                                       AddConnections(st.ns, id, lc, selected_neighbors),
                                       lc, selected_neighbors),
                            !.cur = selected_neighbors]
             Step(r) ==
                 IF r.err THEN [st EXCEPT !.err = TRUE]
                 ELSE ConnectLayers(
                          Only({Wire(sel) : sel \in
                                {select_neighbors_heuristic(st.ns, r.res, vector, Mx)}}),
                          id, vector, lc - 1)
         IN  Only({Step(r) : r \in
                   {search_layer(st.ns, vector, st.cur, ef_construction, lc)}})

\* add_node(vector, chunk_id, document_id, metadata), with the level drawn by
\* _select_level and the uuid4 drawn by HNSWNode.__init__
add_node(vector, chunk_id, metadata, level, id) ==
    LET node == NewNode(vector, chunk_id, metadata, level)
        ns0 == (id :> node) @@ nodes
        raised_layer == IF level > max_layer THEN level ELSE max_layer
    IN  /\ id \notin DOMAIN nodes
        /\ nodeOrder' = Append(nodeOrder, id)
        /\ layers' = [l \in DOMAIN layers |->
                        IF l <= level THEN layers[l] \cup {id} ELSE layers[l]]
        /\ removed' = removed \ {chunk_id}
        /\ dimension' = IF dimension = 0 THEN Len(vector) ELSE dimension
        /\ lastSearch' = NoSearch
        /\ UNCHANGED <<call, mgr>>
        /\ IF entry_point = NoneId
           THEN /\ nodes' = ns0
                /\ max_layer' = raised_layer
                /\ entry_point' = id
                /\ size' = size + 1
                /\ ret' = [raised |-> FALSE, ok |-> TRUE]
           ELSE \E done \in {ConnectLayers(
                                Descend([ns |-> ns0, cur |-> <<entry_point>>, err |-> FALSE],
                                        vector, raised_layer, level),
                                id, vector,
                                IF level < raised_layer THEN level ELSE raised_layer)} :
                IF done.err
                THEN /\ nodes' = done.ns
                     /\ max_layer' = raised_layer
                     /\ UNCHANGED <<entry_point, size>>
                     /\ ret' = [raised |-> TRUE, ok |-> FALSE]
                ELSE /\ nodes' = done.ns
                     /\ entry_point' = IF level > raised_layer THEN id ELSE entry_point
                     /\ max_layer' = IF level > raised_layer THEN level ELSE raised_layer
                     /\ size' = size + 1
                     /\ ret' = [raised |-> FALSE, ok |-> TRUE]

\* mark_deleted_by_chunk_id(chunk_id): the first node, in dict order, that
\* carries the chunk id
mark_deleted_by_chunk_id(chunk_id) ==
    LET hits == {i \in DOMAIN nodeOrder : nodes[nodeOrder[i]].chunk_id = chunk_id}
    IN  /\ IF hits # {}
           THEN /\ nodes' = [nodes EXCEPT ![nodeOrder[Min(hits)]].is_deleted = TRUE]
                /\ removed' = removed \cup {chunk_id}
                /\ ret' = [raised |-> FALSE, ok |-> TRUE]
           ELSE /\ UNCHANGED <<nodes, removed>>
                /\ ret' = [raised |-> FALSE, ok |-> FALSE]
        /\ lastSearch' = NoSearch
        /\ UNCHANGED <<nodeOrder, layers, entry_point, max_layer, size, dimension, call, mgr>>

\* _update_entry_point(): [entry_point, max_layer] after scanning the nodes
\* in dict order for one whose max_layer is above every earlier one
RECURSIVE ScanEntryPoint(_, _, _, _)
ScanEntryPoint(ns, order, i, st) ==
    IF i > Len(order) THEN st
    ELSE IF ns[order[i]].max_layer > st.max_layer
    THEN ScanEntryPoint(ns, order, i + 1,
                        [entry_point |-> order[i], max_layer |-> ns[order[i]].max_layer])
    ELSE ScanEntryPoint(ns, order, i + 1, st)

update_entry_point(ns, order) ==
    ScanEntryPoint(ns, order, 1, [entry_point |-> NoneId, max_layer |-> 0])

\* remove_node(node_id)
remove_node(node_id) ==
    IF node_id \notin DOMAIN nodes
    THEN /\ ret' = [raised |-> FALSE, ok |-> FALSE]
         /\ UNCHANGED <<index, removed, lastSearch, dimension, call, mgr>>
    ELSE LET node == nodes[node_id]
             rest == DOMAIN nodes \ {node_id}
             ns1 == [n \in rest |->
                       [nodes[n] EXCEPT !.connections =
                           [l \in DOMAIN @ |->
                               IF l <= node.max_layer /\ n \in get_connections(node, l)
                               THEN @[l] \ {node_id} ELSE @[l]]]]
             order1 == SelectSeq(nodeOrder, LAMBDA n : n # node_id)
             ep == update_entry_point(ns1, order1)
         IN  /\ nodes' = ns1
             /\ nodeOrder' = order1
             /\ layers' = [l \in DOMAIN layers |->
                             IF l <= node.max_layer THEN layers[l] \ {node_id}
                             ELSE layers[l]]
             /\ size' = size - 1
             /\ entry_point' = IF node_id = entry_point THEN ep.entry_point ELSE entry_point
             /\ max_layer' = IF node_id = entry_point THEN ep.max_layer ELSE max_layer
             /\ ret' = [raised |-> FALSE, ok |-> TRUE]
             /\ lastSearch' = NoSearch
             /\ UNCHANGED <<removed, dimension, call, mgr>>

\* ------------------------------------------- HNSWBuilder.validate_index

\* HNSWNode.has_connection(layer, node_id)
has_connection(n, layer, node_id) == node_id \in get_connections(n, layer)

\* lines 184-192: the nodes that are in no layer set of 0..max_layer
orphaned_nodes ==
    {n \in DOMAIN nodes :
        ~\E layer \in 0..nodes[n].max_layer :
            layer \in DOMAIN layers /\ n \in layers[layer]}

\* lines 195-200: the connections <<node, layer, connected>> that name a
\* node absent from the index or a node that does not link back
connection_issues ==
    {t \in UNION {UNION {{<<n, layer, c>> : c \in get_connections(nodes[n], layer)}
                         : layer \in 0..nodes[n].max_layer}
                  : n \in DOMAIN nodes} :
        \/ t[3] \notin DOMAIN nodes
        \/ ~has_connection(nodes[t[3]], t[2], t[1])}

\* validate_index(index): the report's valid flag and counters
validate_index ==
    IF size = 0
    THEN [valid |-> FALSE, issues |-> {"Index is empty"},
          orphaned_nodes |-> 0, connection_issues |-> 0]
    ELSE LET issues ==
                 (IF entry_point = NoneId \/ entry_point \notin DOMAIN nodes
                  THEN {"Invalid or missing entry point"} ELSE {})
                 \cup (IF Cardinality(orphaned_nodes) > 0
                       THEN {"orphaned nodes found"} ELSE {})
                 \cup (IF Cardinality(connection_issues) > 0
                       THEN {"connection inconsistencies found"} ELSE {})
         IN  [valid |-> issues = {}, issues |-> issues,
              orphaned_nodes |-> Cardinality(orphaned_nodes),
              connection_issues |-> Cardinality(connection_issues)]

\* ------------------------------------------- HNSWNode.satisfies_filters

\* dict.get(key), None when absent
Get(d, key) == IF key \in DOMAIN d THEN d[key] ELSE None

\* dict.get(key, default)
GetOr(d, key, default) == IF key \in DOMAIN d THEN d[key] ELSE default

\* Python truthiness of an optional string
Truthy(x) == x # None /\ x # ""

\* a permissions block that lets every GROUP document through
PermissionGranted_GroupOpen(metadata, permissions) ==
    \/ Get(permissions, "userRole") = "ADMIN"
    \/ Get(metadata, "accessLevel") \in {"PUBLIC", "GROUP"}

\* lines 108-137: the permissions block; FALSE is "return False", TRUE is
\* falling through to the generic filters
PermissionGranted(metadata, permissions) ==
    LET user_role == Get(permissions, "userRole")
        user_groups == GetOr(permissions, "userGroupIds", {})
        user_id == Get(permissions, "userId")
        doc_access_level == Get(metadata, "accessLevel")
        doc_group_id == Get(metadata, "groupId")
    IN  IF user_role = "ADMIN" THEN TRUE
        ELSE IF doc_access_level = "PUBLIC" THEN TRUE
        ELSE IF doc_access_level = "GROUP"
        THEN ~(~Truthy(doc_group_id) \/ doc_group_id \notin user_groups)
        ELSE IF doc_access_level = "MANAGERS"
        THEN user_role \in {"MANAGER", "ADMIN"}
        ELSE IF doc_access_level = "ADMINS"
        THEN user_role = "ADMIN"
        ELSE IF doc_access_level = "RESTRICTED"
        THEN user_id \in GetOr(metadata, "restrictedToUsers", {})
        ELSE FALSE

\* lines 151-170: one generic filter against the node's value.  An expected
\* value is [kind |-> "scalar", v], [kind |-> "list", v] or
\* [kind |-> "dict", ops]; the operators of a dict are an if/elif chain.
GenericMatch(actual_value, expected_value) ==
    IF expected_value.kind = "dict"
    THEN LET ops == expected_value.ops
         IN  IF "$in" \in DOMAIN ops THEN actual_value \in ops["$in"]
             ELSE IF "$gte" \in DOMAIN ops THEN ~(actual_value < ops["$gte"])
             ELSE IF "$lte" \in DOMAIN ops THEN ~(actual_value > ops["$lte"])
             ELSE IF "$ne" \in DOMAIN ops THEN ~(actual_value = ops["$ne"])
             ELSE TRUE
    ELSE IF expected_value.kind = "list"
    THEN actual_value \in expected_value.v
    ELSE actual_value = expected_value.v

\* satisfies_filters(filters); the empty function stands for None and {}
satisfies_filters(metadata, filters) ==
    IF DOMAIN filters = {} THEN TRUE
    ELSE /\ "permissions" \in DOMAIN filters
            => PermissionGranted(metadata, filters["permissions"])
         /\ \A key \in DOMAIN filters \ {"permissions"} :
                /\ key \in DOMAIN metadata
                /\ GenericMatch(metadata[key], filters[key])

\* ------------------------------------------------------- HNSWIndex.search

\* _should_log_group_denial that does not look at the caller's role
should_log_group_denial_AnyRole(metadata, filters) ==
    IF "permissions" \notin DOMAIN filters THEN FALSE
    ELSE LET permissions == filters["permissions"]
             user_groups == GetOr(permissions, "userGroupIds", {})
             doc_access_level == Get(metadata, "accessLevel")
             doc_group_id == Get(metadata, "groupId")
         IN  /\ doc_access_level = "GROUP"
             /\ Truthy(doc_group_id)
             /\ doc_group_id \notin user_groups

\* _should_log_group_denial(node, filters)
should_log_group_denial(metadata, filters) ==
    IF "permissions" \notin DOMAIN filters THEN FALSE
    ELSE LET permissions == filters["permissions"]
             user_role == Get(permissions, "userRole")
             user_groups == GetOr(permissions, "userGroupIds", {})
             doc_access_level == Get(metadata, "accessLevel")
             doc_group_id == Get(metadata, "groupId")
         IN  /\ doc_access_level = "GROUP"
             /\ Truthy(doc_group_id)
             /\ doc_group_id \notin user_groups
             /\ user_role # "ADMIN"

\* lines 343-347: greedy descent from max_layer down to layer 1
RECURSIVE SearchDescend(_, _, _)
SearchDescend(st, q, lc) ==
    IF lc <= 0 \/ st.err THEN st
    ELSE LET r == search_layer(nodes, q, st.cur, 1, lc)
         IN  SearchDescend([st EXCEPT !.cur = r.res, !.err = r.err], q, lc - 1)

Max2(a, b) == IF a > b THEN a ELSE b

\* the filter loop without its satisfies_filters test
FilterKeeps_Unfiltered(n, filters) ==
    /\ n \in DOMAIN nodes
    /\ ~nodes[n].is_deleted

\* lines 355-380: whether the filter loop appends the candidate n
FilterKeeps(n, filters) ==
    /\ n \in DOMAIN nodes
    /\ ~nodes[n].is_deleted
    /\ ~(DOMAIN filters # {} /\ ~satisfies_filters(nodes[n].metadata, filters))

\* filtered_results[:k]
Take(s, k) == SubSeq(s, 1, IF Len(s) < k THEN Len(s) ELSE k)

\* search(query_vector, k, ef, filters, search_query, user_id): ef is <<>>
\* for None; has_query / has_user tell whether search_query / user_id are
\* given.  [raised, results, denials, candidates]: results are node ids,
\* best first; denials are the nodes a denial task is created for, one entry
\* per task; candidates are the node ids of the layer-0 search.
search(q, k, ef, filters, has_query, has_user) ==
    IF DOMAIN nodes = {} \/ entry_point = NoneId
    THEN [raised |-> FALSE, results |-> <<>>, denials |-> <<>>, candidates |-> <<>>]
    ELSE LET ef1 == IF ef = <<>> THEN Max2(ef_construction, k) ELSE ef[1]
             search_ef == IF DOMAIN filters # {} THEN Max2(ef1, k * 3) ELSE ef1
             Bottom(down) ==
                 IF down.err THEN [err |-> TRUE, res |-> <<>>]
                 ELSE search_layer(nodes, q, down.cur, search_ef, 0)
             r == Only({Bottom(down) : down \in
                        {SearchDescend([cur |-> <<entry_point>>, err |-> FALSE],
                                       q, max_layer)}})
             Pass(n) == FilterKeeps(n, filters)
             Denied(n) == /\ n \in DOMAIN nodes
                          /\ ~nodes[n].is_deleted
                          /\ DOMAIN filters # {}
                          /\ ~satisfies_filters(nodes[n].metadata, filters)
                          /\ has_query /\ has_user
                          /\ should_log_group_denial(nodes[n].metadata, filters)
                          /\ Truthy(Get(nodes[n].metadata, "groupId"))
             Filtered(res) ==
                 IF res.err
                 THEN [raised |-> TRUE, results |-> <<>>, denials |-> <<>>,
                       candidates |-> <<>>]
                 ELSE [raised |-> FALSE,
                       results |-> Take(SelectSeq(res.res, Pass), k),
                       denials |-> SelectSeq(res.res, Denied),
                       candidates |-> res.res]
         IN  Only({Filtered(res) : res \in {r}})

\* an update_node_metadata that also clears the soft-delete flag of the node
update_node_metadata_Reviving(chunk_id, new_metadata) ==
    LET hits == {i \in DOMAIN nodeOrder : nodes[nodeOrder[i]].chunk_id = chunk_id}
    IN  /\ IF hits # {}
           THEN /\ nodes' = [nodes EXCEPT ![nodeOrder[Min(hits)]] =
                                [@ EXCEPT !.metadata = new_metadata @@ @,
                                          !.is_deleted = FALSE]]
                /\ ret' = [raised |-> FALSE, ok |-> TRUE]
           ELSE /\ UNCHANGED nodes
                /\ ret' = [raised |-> FALSE, ok |-> FALSE]
        /\ lastSearch' = NoSearch
        /\ UNCHANGED <<nodeOrder, layers, entry_point, max_layer, size, removed,
                       dimension, call, mgr>>

\* update_node_metadata(chunk_id, new_metadata): dict.update on the first
\* node, in dict order, that carries the chunk id
update_node_metadata(chunk_id, new_metadata) ==
    LET hits == {i \in DOMAIN nodeOrder : nodes[nodeOrder[i]].chunk_id = chunk_id}
    IN  /\ IF hits # {}
           THEN /\ nodes' = [nodes EXCEPT ![nodeOrder[Min(hits)]].metadata = new_metadata @@ @]
                /\ ret' = [raised |-> FALSE, ok |-> TRUE]
           ELSE /\ UNCHANGED nodes
                /\ ret' = [raised |-> FALSE, ok |-> FALSE]
        /\ lastSearch' = NoSearch
        /\ UNCHANGED <<nodeOrder, layers, entry_point, max_layer, size, removed,
                       dimension, call, mgr>>

\* the first node, in dict order, that carries the chunk id (NoneId when no
\* node does): the node the three metadata methods stop at
NodeOfChunk(chunk_id) ==
    LET hits == {i \in DOMAIN nodeOrder : nodes[nodeOrder[i]].chunk_id = chunk_id}
    IN  IF hits = {} THEN NoneId ELSE nodeOrder[Min(hits)]

\* HNSWNode.set_metadata(new_metadata): the metadata is replaced by a copy
set_metadata(node, new_metadata) == [node EXCEPT !.metadata = new_metadata]

\* HNSWNode.delete_metadata_fields(fields_to_delete): pop(field, None) of
\* every field
delete_metadata_fields(node, fields_to_delete) ==
    [node EXCEPT !.metadata =
        [key \in DOMAIN @ \ fields_to_delete |-> @[key]]]

\* set_node_metadata(chunk_id, new_metadata)
set_node_metadata(chunk_id, new_metadata) ==
    LET n == NodeOfChunk(chunk_id)
    IN  /\ IF n # NoneId
           THEN /\ nodes' = [nodes EXCEPT ![n] = set_metadata(@, new_metadata)]
                /\ ret' = [raised |-> FALSE, ok |-> TRUE]
           ELSE /\ UNCHANGED nodes
                /\ ret' = [raised |-> FALSE, ok |-> FALSE]
        /\ lastSearch' = NoSearch
        /\ UNCHANGED <<nodeOrder, layers, entry_point, max_layer, size, removed,
                       dimension, call, mgr>>

\* delete_node_metadata_fields(chunk_id, fields_to_delete)
delete_node_metadata_fields(chunk_id, fields_to_delete) ==
    LET n == NodeOfChunk(chunk_id)
    IN  /\ IF n # NoneId
           THEN /\ nodes' = [nodes EXCEPT ![n] = delete_metadata_fields(@, fields_to_delete)]
                /\ ret' = [raised |-> FALSE, ok |-> TRUE]
           ELSE /\ UNCHANGED nodes
                /\ ret' = [raised |-> FALSE, ok |-> FALSE]
        /\ lastSearch' = NoSearch
        /\ UNCHANGED <<nodeOrder, layers, entry_point, max_layer, size, removed,
                       dimension, call, mgr>>

\* ------------------------------------------------ SearchService.search

\* _parse_filters(filters): the request's filters are a dict with optional
\* "permissions" and "metadata"; the empty function stands for None and {}
parse_filters(filters) ==
    IF DOMAIN filters = {} THEN <<>>
    ELSE LET perms ==
                 IF "permissions" \in DOMAIN filters
                 THEN [permissions |->
                         [userId |-> Get(filters["permissions"], "userId"),
                          userRole |-> Get(filters["permissions"], "userRole"),
                          userGroupIds |-> GetOr(filters["permissions"], "userGroupIds", {})]]
                 ELSE <<>>
             meta == IF "metadata" \in DOMAIN filters THEN filters["metadata"] ELSE <<>>
         IN  meta @@ perms

\* _search_hnsw(query, hnsw_index, filters, k): qv is <<>> when
\* generate_embedding returned None, else <<vector>>; any exception of the
\* index search is caught and gives []
search_hnsw(qv, filters, k) ==
    IF qv = <<>> THEN [results |-> <<>>, denials |-> <<>>]
    ELSE LET user_id == IF "permissions" \in DOMAIN filters
                        THEN Get(filters["permissions"], "userId")
                        ELSE None
             NotDeleted(n) == ~nodes[n].is_deleted
             Results(r) ==
                 IF r.raised THEN [results |-> <<>>, denials |-> <<>>]
                 ELSE [results |-> SelectSeq(r.results, NotDeleted),
                       denials |-> r.denials]
         IN  Only({Results(r) : r \in
                   {search(qv[1], k, <<>>, filters, TRUE, Truthy(user_id))}})

\* _enrich_results(results): db is "rows" (every chunk has a row, whose
\* stored chunk metadata is stored[chunk_id]), "norows" (no row comes
\* back) or "fail" (the query raises)
enrich_results(results, db, stored) ==
    IF results = <<>> THEN <<>>
    ELSE IF db = "fail"
    THEN [i \in DOMAIN results |->
            [chunk_id |-> nodes[results[i]].chunk_id,
             metadata |-> nodes[results[i]].metadata]]
    ELSE IF db = "norows" THEN <<>>
    ELSE [i \in DOMAIN results |->
            [chunk_id |-> nodes[results[i]].chunk_id,
             metadata |-> [document_title |-> "title", original_filename |-> "file"]
                          @@ stored[nodes[results[i]].chunk_id]
                          @@ nodes[results[i]].metadata]]

\* check_permissions(node_metadata, user_permissions): TRUE when the value
\* returned is truthy
check_permissions(node_metadata, user_permissions) ==
    IF Get(user_permissions, "user_role") = "ADMIN" THEN TRUE
    ELSE LET access_level == GetOr(node_metadata, "accessLevel", "PUBLIC")
         IN  IF access_level = "PUBLIC" THEN TRUE
             ELSE IF access_level = "GROUP"
             THEN LET group_id == Get(node_metadata, "groupId")
                  IN  /\ Truthy(group_id)
                      /\ group_id \in GetOr(user_permissions, "user_group_ids", {})
             ELSE IF access_level = "MANAGERS"
             THEN Get(user_permissions, "user_role") \in {"MANAGER", "ADMIN"}
             ELSE IF access_level = "ADMINS" THEN FALSE
             ELSE IF access_level = "RESTRICTED"
             THEN LET restricted_users == GetOr(node_metadata, "restrictedToUsers", {})
                      user_id == Get(user_permissions, "user_id")
                  IN  Truthy(user_id) /\ user_id \in restricted_users
             ELSE FALSE

default_k == 10
max_k == 100

Snapshot(ids) ==
    [i \in DOMAIN ids |->
        [id |-> ids[i], chunk_id |-> nodes[ids[i]].chunk_id,
         metadata |-> nodes[ids[i]].metadata]]

\* SearchService.search(query, organization_id, filters, k) for a tenant
\* whose container holds this index; k is <<>> for None
service_search(qv, filters, k, db, stored) ==
    LET k0 == IF k = <<>> \/ k = <<0>> THEN default_k ELSE k[1]
        k1 == IF k0 < max_k THEN k0 ELSE max_k
        parsed_filters == parse_filters(filters)
    IN  \E hnsw \in {search_hnsw(qv, parsed_filters, k1 * 2)} :
        \E top \in {Take(hnsw.results, k1)} :
        /\ lastSearch' = [op |-> "service", filters |-> filters,
                          raised |-> FALSE, error |-> None,
                          results |-> Snapshot(top),
                          denials |-> Snapshot(hnsw.denials),
                          out |-> enrich_results(top, db, stored)]
        /\ UNCHANGED <<index, removed, ret, dimension, call, mgr>>

\* a call of HNSWIndex.search, recorded
index_search(q, k, ef, filters, has_query, has_user) ==
    \E r \in {search(q, k, ef, filters, has_query, has_user)} :
        /\ lastSearch' = [op |-> "search", filters |-> filters,
                          raised |-> r.raised, error |-> None,
                          results |-> Snapshot(r.results),
                          denials |-> Snapshot(r.denials),
                          out |-> <<>>, candidates |-> r.candidates,
                          has_query |-> has_query, has_user |-> has_user]
        /\ UNCHANGED <<index, removed, ret, dimension, call, mgr>>

\* ------------------------------------------ SearchIndexBuilderService
\* One tenant T.  asyncio runs one coroutine at a time and switches only at
\* an await that suspends: each action below is the code between two such
\* awaits.  A tenant's HNSW index is kept here as the list of its nodes in
\* dict order, each [chunk_id, is_deleted].

Tasks == 1..MaxTasks

Idle ==
    [pc |-> "idle", op |-> "none", force |-> FALSE, chunks |-> {},
     local |-> <<>>, seen |-> <<>>, rows |-> <<>>, data |-> {}, built |-> FALSE,
     out |-> "none", value |-> <<>>, at |-> 0, prev |-> <<>>, during |-> {},
     results |-> {}]

\* A task record is one client coroutine: pc is where it is suspended, op the
\* call it makes or made last, local / seen / data the call's org_indexes,
\* existing_indexes (by container id) and chunks_with_embeddings, out and
\* value how the call ended.  History: built tells that the call went past
\* line 86, at is the store's clock when the call ended, prev is <<at>> of
\* the task's previous call when that was a build that returned.  rows is
\* the result of the chunk query once the store has run it, <<>> before.
\* For SearchService.search, seen is the container the search took (by id),
\* local that container as it was then, results the chunk ids of its results.
\* History: during is the set of coroutines whose build_or_update_index was
\* in flight when the task made its last call and still is their last call.

\* SearchIndexBuilderService.__init__, and a store that holds tenant T with
\* no chunk yet
MgrInit ==
    /\ indexes = <<>>
    /\ lock = {}
    /\ store = [chunks |-> {}, embedded |-> {}, lastDataChange |-> 0,
                lastIndexUpdate |-> <<>>, now |-> 0]
    /\ disk = <<>>
    /\ task = [p \in Tasks |-> Idle]
    /\ made = 0

\* get_organization_stats: needs_reindex
needs_reindex(st) ==
    \/ st.lastIndexUpdate = <<>>
    \/ st.lastDataChange > st.lastIndexUpdate[1]

\* HNSWIndex.add_node for each chunk of cs, in ascending chunk id
RECURSIVE add_nodes(_, _)
add_nodes(hnsw, cs) ==
    IF cs = {} THEN hnsw
    ELSE add_nodes(Append(hnsw, [chunk_id |-> Min(cs), is_deleted |-> FALSE,
                                 metadata |-> "stored"]),
                   cs \ {Min(cs)})

\* HNSWIndex.mark_deleted_by_chunk_id on the node list
mark_deleted(hnsw, c) ==
    LET hits == {i \in DOMAIN hnsw : hnsw[i].chunk_id = c}
    IN  IF hits = {} THEN hnsw
        ELSE [hnsw EXCEPT ![Min(hits)].is_deleted = TRUE]

\* lines 208-227 of add_chunks on the container idx[1]: the embedded chunks
\* become nodes when the container has an HNSW index
add_to_container(idx, cs) ==
    IF idx[1].hnsw = <<>> THEN idx
    ELSE <<[idx[1] EXCEPT !.hnsw = <<add_nodes(@[1], cs)>>]>>

\* a build_or_update_index that releases the lock when it returns and keeps
\* it when it raises
Leave_HeldOnRaise(p, idx, kind, built, value) ==
    LET t == task[p]
        goes_on == t.op = "add_chunks" /\ kind = "returned"
        fails == goes_on /\ idx = <<>>
        searches == /\ t.op = "search" /\ kind = "returned"
                    /\ idx # <<>> /\ idx[1].hnsw # <<>>
    IN  /\ lock' = IF kind = "raised" THEN lock ELSE lock \ {p}
        /\ indexes' = IF goes_on /\ ~fails THEN add_to_container(idx, t.chunks)
                      ELSE idx
        /\ task' = [task EXCEPT ![p] =
                      IF searches
                      THEN [Idle EXCEPT !.pc = "embed", !.op = "search", !.built = built,
                                        !.seen = <<idx[1].cid>>, !.local = idx]
                      ELSE [Idle EXCEPT !.op = t.op, !.force = t.force, !.chunks = t.chunks,
                                        !.seen = t.seen, !.data = t.data, !.built = built,
                                        !.at = store.now, !.prev = t.prev,
                                        !.during = t.during,
                                        !.out = IF fails THEN "raised" ELSE kind,
                                        !.value = IF goes_on THEN <<>> ELSE value]]

\* The coroutine p leaves build_or_update_index (the lock is released by
\* `async with`) with the container map idx: kind is "returned" or "raised".
\* A build entered from add_chunks (lines 205-206) goes on, without
\* suspending, with lines 206-227.  A build entered from SearchService.search
\* (search_service.py:62) that returned a container with an index goes on to
\* the embedding of the query; with none the search returns no result.
Leave(p, idx, kind, built, value) ==
    LET t == task[p]
        goes_on == t.op = "add_chunks" /\ kind = "returned"
        fails == goes_on /\ idx = <<>>
        searches == /\ t.op = "search" /\ kind = "returned"
                    /\ idx # <<>> /\ idx[1].hnsw # <<>>
    IN  /\ lock' = lock \ {p}
        /\ indexes' = IF goes_on /\ ~fails THEN add_to_container(idx, t.chunks)
                      ELSE idx
        /\ task' = [task EXCEPT ![p] =
                      IF searches
                      THEN [Idle EXCEPT !.pc = "embed", !.op = "search", !.built = built,
                                        !.seen = <<idx[1].cid>>, !.local = idx]
                      ELSE [Idle EXCEPT !.op = t.op, !.force = t.force, !.chunks = t.chunks,
                                        !.seen = t.seen, !.data = t.data, !.built = built,
                                        !.at = store.now, !.prev = t.prev,
                                        !.during = t.during,
                                        !.out = IF fails THEN "raised" ELSE kind,
                                        !.value = IF goes_on THEN <<>> ELSE value]]

\* every call in flight that may still create a container can do so within
\* MaxContainers, and one more
CanMake ==
    made + Cardinality({q \in Tasks : task[q].pc \in {"acquire", "stats"}})
        < MaxContainers

\* build_or_update_index(T, force_rebuild), lines 62-65: the call waits for
\* the tenant's lock
build_start(p, force) ==
    /\ task[p].pc = "idle"
    /\ CanMake
    /\ task' = [q \in Tasks |->
                  IF q = p
                  THEN [Idle EXCEPT !.pc = "acquire", !.op = "build", !.force = force,
                                    !.prev = IF task[p].op = "build" /\ task[p].out = "returned"
                                             THEN <<task[p].at>> ELSE <<>>]
                  ELSE [task[q] EXCEPT !.during = @ \ {p}]]
    /\ UNCHANGED <<indexes, lock, store, disk, made>>

\* the lock granted whoever holds it
build_acquire_Unlocked(p) ==
    /\ task[p].pc = "acquire"
    /\ lock' = lock \cup {p}
    /\ task' = [task EXCEPT ![p].pc = "stats"]
    /\ UNCHANGED <<indexes, store, disk, made>>

\* the lock is granted
build_acquire(p) ==
    /\ task[p].pc = "acquire"
    /\ lock = {}
    /\ lock' = {p}
    /\ task' = [task EXCEPT ![p].pc = "stats"]
    /\ UNCHANGED <<indexes, store, disk, made>>

\* lines 67-98: get_organization_stats answers (ok) or raises; the call
\* returns the stored container or creates a new one and asks for the chunks
build_stats(p, ok) ==
    LET t == task[p]
        needs_rebuild ==
            \/ t.force
            \/ indexes = <<>>
            \/ indexes[1].hnsw = <<>>
            \/ needs_reindex(store)
        seen == IF indexes = <<>> THEN <<>> ELSE <<indexes[1].cid>>
    IN  /\ t.pc = "stats"
        /\ UNCHANGED <<store, disk>>
        /\ IF ~ok
           THEN /\ Leave(p, indexes, "raised", FALSE, <<>>)
                /\ UNCHANGED made
           ELSE IF ~needs_rebuild
           THEN /\ Leave(p, indexes, "returned", FALSE, seen)
                /\ UNCHANGED made
           ELSE /\ made' = made + 1
                /\ task' = [task EXCEPT ![p].pc = "fetch", ![p].seen = seen,
                                        ![p].local = <<[cid |-> made + 1, hnsw |-> <<>>,
                                                        is_building |-> TRUE]>>]
                /\ UNCHANGED <<indexes, lock>>

\* get_chunks_and_embeddings_for_organization: the store runs the query of
\* the suspended call; its rows are the tenant's chunks at that moment
get_chunks_and_embeddings(p) ==
    /\ task[p].pc = "fetch"
    /\ task[p].rows = <<>>
    /\ task' = [task EXCEPT ![p].rows = <<[chunks |-> store.chunks,
                                          embedded |-> store.embedded]>>]
    /\ UNCHANGED <<indexes, lock, store, disk, made>>

\* lines 94-146: get_chunks_and_embeddings_for_organization answers with its
\* rows (ok) or raises; with no chunk the empty container is stored and
\* returned, else the index is built over the embedded chunks, the
\* container is stored and update_last_index_time is called
build_fetch(p, ok) ==
    LET t == task[p]
        chunks_data == t.rows[1].chunks
        chunks_with_embeddings == t.rows[1].embedded
        built_hnsw == IF chunks_with_embeddings = {} THEN <<>>
                      ELSE <<add_nodes(<<>>, chunks_with_embeddings)>>
        done == [t.local[1] EXCEPT !.is_building = FALSE]
    IN  /\ t.pc = "fetch"
        /\ UNCHANGED <<store, disk, made>>
        /\ IF ~ok
           THEN Leave(p, indexes, "raised", TRUE, <<>>)
           ELSE /\ t.rows # <<>>
                /\ IF chunks_data = {}
                   THEN Leave(p, <<done>>, "returned", TRUE, <<done.cid>>)
                   ELSE /\ indexes' = <<[done EXCEPT !.hnsw = built_hnsw]>>
                        /\ task' = [task EXCEPT ![p].pc = "stamp", ![p].local = indexes',
                                                ![p].rows = <<>>,
                                                ![p].data = chunks_with_embeddings]
                        /\ UNCHANGED lock

\* lines 148-162: update_last_index_time answers (ok) or raises
build_stamp(p, ok) ==
    LET t == task[p]
    IN  /\ t.pc = "stamp"
        /\ UNCHANGED <<disk, made>>
        /\ IF ~ok
           THEN /\ Leave(p, indexes, "raised", TRUE, <<>>)
                /\ UNCHANGED store
           ELSE /\ Leave(p, indexes, "returned", TRUE, <<t.local[1].cid>>)
                /\ store' = [store EXCEPT !.lastIndexUpdate = <<store.now>>]

\* the coroutines inside `async with` of build_or_update_index
InFlight == {q \in Tasks : task[q].pc \in {"stats", "fetch", "stamp"}}

\* add_chunks(T, new_chunks): cs are the chunk ids of new_chunks that have an
\* embedding.  With a container it runs to its end without suspending; with
\* none it calls build_or_update_index first.
add_chunks(p, cs) ==
    /\ task[p].pc = "idle"
    /\ indexes # <<>> /\ indexes[1].hnsw # <<>> => Len(indexes[1].hnsw[1]) < MaxTenantNodes
    /\ UNCHANGED <<store, disk, made>>
    /\ IF indexes # <<>>
       THEN /\ indexes' = add_to_container(indexes, cs)
            /\ task' = [task EXCEPT ![p] = [Idle EXCEPT !.op = "add_chunks", !.chunks = cs,
                                                        !.during = InFlight \ {p},
                                                        !.out = "returned"]]
            /\ UNCHANGED lock
       ELSE /\ CanMake
            /\ task' = [task EXCEPT ![p] = [Idle EXCEPT !.pc = "acquire",
                                                        !.during = InFlight \ {p},
                                                        !.op = "add_chunks", !.chunks = cs]]
            /\ UNCHANGED <<indexes, lock>>

\* remove_chunks(T, chunk_ids)
remove_chunks(p, cs) ==
    LET RECURSIVE MarkAll(_, _)
        MarkAll(hnsw, rest) ==
            IF rest = {} THEN hnsw
            ELSE MarkAll(mark_deleted(hnsw, Min(rest)), rest \ {Min(rest)})
    IN  /\ task[p].pc = "idle"
        /\ UNCHANGED <<lock, store, disk, made>>
        /\ indexes' = IF indexes = <<>> \/ indexes[1].hnsw = <<>> THEN indexes
                      ELSE <<[indexes[1] EXCEPT !.hnsw = <<MarkAll(@[1], cs)>>]>>
        /\ task' = [task EXCEPT ![p] = [Idle EXCEPT !.op = "remove_chunks",
                                                    !.out = "returned",
                                                    !.value = <<indexes # <<>> >>]]

\* update_chunk_metadata(T, chunk_updates) with one update of chunk c
update_chunk_metadata(p, c) ==
    LET Update(hnsw) ==
            LET hits == {i \in DOMAIN hnsw : hnsw[i].chunk_id = c}
            IN  IF hits = {} THEN hnsw
                ELSE [hnsw EXCEPT ![Min(hits)].metadata = "updated"]
    IN  /\ task[p].pc = "idle"
        /\ UNCHANGED <<lock, store, disk, made>>
        /\ indexes' = IF indexes = <<>> \/ indexes[1].hnsw = <<>> THEN indexes
                      ELSE <<[indexes[1] EXCEPT !.hnsw = <<Update(@[1])>>]>>
        /\ task' = [task EXCEPT ![p] = [Idle EXCEPT !.op = "update_chunk_metadata",
                                                    !.out = "returned",
                                                    !.value = <<indexes # <<>> >>]]

\* SearchService.search(query, T), lines 59-62: the search takes the stored
\* container or, with none or none with an index, calls
\* build_or_update_index; then it awaits the embedding of the query
search_start(p) ==
    /\ task[p].pc = "idle"
    /\ UNCHANGED <<indexes, lock, store, disk, made>>
    /\ IF indexes = <<>> \/ indexes[1].hnsw = <<>>
       THEN /\ CanMake
            /\ task' = [task EXCEPT ![p] = [Idle EXCEPT !.pc = "acquire", !.op = "search"]]
       ELSE task' = [task EXCEPT ![p] = [Idle EXCEPT !.pc = "embed", !.op = "search",
                                                     !.seen = <<indexes[1].cid>>,
                                                     !.local = indexes]]

\* the HNSW index of the container the search took: the stored one while
\* that container is stored, else the container as it was taken
searched_index(p) ==
    IF indexes # <<>> /\ <<indexes[1].cid>> = task[p].seen
    THEN indexes[1].hnsw[1] ELSE task[p].local[1].hnsw[1]

\* _search_hnsw, search_service.py:139-180: generate_embedding answers with
\* a vector (ok) or with None or an exception; the index is searched, the
\* results are the nodes that are not soft-deleted; with no result
\* _enrich_results returns at once, else it queries the chunk rows
search_embed(p, ok) ==
    LET hnsw == searched_index(p)
        hits == IF ok THEN {hnsw[i].chunk_id : i \in {j \in DOMAIN hnsw : ~hnsw[j].is_deleted}}
                ELSE {}
    IN  /\ task[p].pc = "embed"
        /\ UNCHANGED <<indexes, lock, store, disk, made>>
        /\ task' = [task EXCEPT ![p] =
                      IF hits = {}
                      THEN [Idle EXCEPT !.op = "search", !.out = "returned",
                                        !.seen = task[p].seen]
                      ELSE [task[p] EXCEPT !.pc = "enrich", !.results = hits]]

\* _enrich_results, search_service.py:186-263: the rows come back (ok) and
\* the results without a row are dropped, or the query fails and every
\* result is returned as it is
search_enrich(p, ok) ==
    /\ task[p].pc = "enrich"
    /\ UNCHANGED <<indexes, lock, store, disk, made>>
    /\ task' = [task EXCEPT ![p] =
                  [Idle EXCEPT !.op = "search", !.out = "returned",
                               !.seen = task[p].seen,
                               !.results = IF ok THEN task[p].results \cap store.chunks
                                           ELSE task[p].results]]

\* has_indexes(T)
has_indexes ==
    /\ indexes # <<>>
    /\ indexes[1].hnsw # <<>>
    /\ ~indexes[1].is_building

\* get_indexes(T): <<>> for None
get_indexes == indexes

\* destroy_indexes that answers and leaves the container stored
destroy_indexes_Kept(p, persist_to_disk) ==
    /\ task[p].pc = "idle"
    /\ UNCHANGED <<indexes, lock, store, disk, made>>
    /\ task' = [task EXCEPT ![p] = [Idle EXCEPT !.op = "destroy_indexes",
                                                !.out = "returned",
                                                !.value = <<indexes # <<>> >>]]

\* destroy_indexes(T, persist_to_disk)
destroy_indexes(p, persist_to_disk) ==
    /\ task[p].pc = "idle"
    /\ UNCHANGED <<lock, store, made>>
    /\ indexes' = <<>>
    /\ disk' = IF indexes # <<>> /\ persist_to_disk /\ indexes[1].hnsw # <<>>
               THEN indexes[1].hnsw ELSE disk
    /\ task' = [task EXCEPT ![p] = [Idle EXCEPT !.op = "destroy_indexes",
                                                !.out = "returned",
                                                !.value = <<indexes # <<>> >>]]

\* load_persisted_index(T)
load_persisted_index(p) ==
    /\ task[p].pc = "idle"
    /\ UNCHANGED <<lock, store, disk>>
    /\ IF has_indexes
       THEN /\ UNCHANGED <<indexes, made>>
            /\ task' = [task EXCEPT ![p] = [Idle EXCEPT !.op = "load_persisted_index",
                                                        !.out = "returned", !.value = <<TRUE>>]]
       ELSE IF disk = <<>>
       THEN /\ UNCHANGED <<indexes, made>>
            /\ task' = [task EXCEPT ![p] = [Idle EXCEPT !.op = "load_persisted_index",
                                                        !.out = "returned", !.value = <<FALSE>>]]
       ELSE /\ CanMake
            /\ made' = made + 1
            /\ indexes' = <<[cid |-> made + 1, hnsw |-> disk, is_building |-> FALSE]>>
            /\ task' = [task EXCEPT ![p] = [Idle EXCEPT !.op = "load_persisted_index",
                                                        !.out = "returned", !.value = <<TRUE>>]]

\* The store outside the service: chunk c is written for tenant T, with an
\* embedding or without, and lastDataChange is set
data_change(c, embedded) ==
    /\ store.now < MaxClock
    /\ c \notin store.chunks
    /\ store' = [store EXCEPT !.chunks = @ \cup {c},
                              !.embedded = IF embedded THEN @ \cup {c} ELSE @,
                              !.now = @ + 1,
                              !.lastDataChange = store.now + 1]
    /\ UNCHANGED <<indexes, lock, disk, task, made>>

\* ------------------------------------------------------ ChunkingService
\* A text is the sequence of its sentences, a sentence the number of its
\* words; a chunk or a section is a text.  Complexity scores are in tenths.

max_words == 2000

RECURSIVE count_words(_)
count_words(text) ==
    IF text = <<>> THEN 0 ELSE Head(text) + count_words(Tail(text))

\* get_target_chunk_size(complexity_score)
get_target_chunk_size(complexity_score) ==
    IF complexity_score >= 7 THEN 300
    ELSE IF complexity_score >= 4 THEN 500
    ELSE 700

\* the loop over the sentences of prepare_chunked_text (lines 132-153) and
\* of _fallback_size_based_chunking (lines 269-288)
RECURSIVE GroupSentences(_, _, _, _)
GroupSentences(sentences, target_size, chunks, current_chunk) ==
    IF sentences = <<>>
    THEN IF current_chunk # <<>> THEN Append(chunks, current_chunk) ELSE chunks
    ELSE LET sentence_word_count == Head(sentences)
             current_word_count == count_words(current_chunk)
         IN  IF /\ current_word_count + sentence_word_count > target_size
                /\ current_chunk # <<>>
                /\ 2 * current_word_count >= target_size
             THEN GroupSentences(Tail(sentences), target_size,
                                 Append(chunks, current_chunk), <<sentence_word_count>>)
             ELSE GroupSentences(Tail(sentences), target_size, chunks,
                                 Append(current_chunk, sentence_word_count))

\* prepare_chunked_text(document_text): the marked chunks, numbered from 0
prepare_chunked_text(document_text, complexity_score) ==
    IF document_text = <<>> THEN <<document_text>>
    ELSE GroupSentences(document_text, get_target_chunk_size(complexity_score),
                        <<>>, <<>>)

\* _fallback_size_based_chunking(text)
fallback_size_based_chunking(text, complexity_score) ==
    IF text = <<>> THEN <<text>>
    ELSE GroupSentences(text, get_target_chunk_size(complexity_score), <<>>, <<>>)

\* lines 197-207: the chunk numbers of the LLM's answer; the answer's kind is
\* "no_marker" (no "split_after:" in it), "none", "unparseable" (int() raises
\* on an item) or "list", with the numbers in v
parse_split_after(llm_response) ==
    IF llm_response.kind = "list" THEN Range(llm_response.v) ELSE {}

RECURSIVE Flatten(_)
Flatten(texts) == IF texts = <<>> THEN <<>> ELSE Head(texts) \o Flatten(Tail(texts))

\* lines 226-237: the chunks are joined into sections, a section ending
\* after each chunk whose number is in split_after
RECURSIVE JoinSections(_, _, _, _, _)
JoinSections(chunks, i, split_after, sections, current_section) ==
    IF i > Len(chunks)
    THEN IF current_section # <<>> THEN Append(sections, Flatten(current_section))
         ELSE sections
    ELSE IF (i - 1) \in split_after
    THEN JoinSections(chunks, i + 1, split_after,
                      Append(sections, Flatten(Append(current_section, chunks[i]))), <<>>)
    ELSE JoinSections(chunks, i + 1, split_after, sections,
                      Append(current_section, chunks[i]))

\* split_text_by_llm_suggestions(chunked_text, llm_response);
\* complexity_score is that of the chunks joined again
split_text_by_llm_suggestions(chunks, llm_response, complexity_score) ==
    LET split_after == parse_split_after(llm_response)
        original_text == Flatten(chunks)
        sections == JoinSections(chunks, 1, split_after, <<>>, <<>>)
        oversized_chunks == {i \in DOMAIN sections : count_words(sections[i]) > max_words}
    IN  IF split_after = {}
        THEN fallback_size_based_chunking(original_text, complexity_score)
        ELSE IF oversized_chunks # {}
        THEN fallback_size_based_chunking(original_text, complexity_score)
        ELSE sections

\* chunk_document, lines 309-318: the text is prepared and the LLM is asked
chunk_document_start(document_text, complexity_score) ==
    /\ call = NoCall
    /\ call' = [fn |-> "chunk_document", pc |-> "llm",
                document_text |-> document_text,
                chunked_text |-> prepare_chunked_text(document_text, complexity_score),
                llm_response |-> [kind |-> "pending", v |-> <<>>], chunks |-> <<>>]

\* chunk_document, lines 318-328: the LLM call raises ("raise") or answers
chunk_document_end(llm_response, complexity_score) ==
    /\ call.fn = "chunk_document" /\ call.pc = "llm"
    /\ call' = [call EXCEPT
                  !.pc = "done",
                  !.llm_response = llm_response,
                  !.chunks = IF llm_response.kind = "raise" THEN <<call.document_text>>
                             ELSE split_text_by_llm_suggestions(call.chunked_text,
                                      llm_response, complexity_score)]

\* ------------------------------------ DocumentProcessingPipelineService
\* call holds the run of process_document: the document's metadata, the
\* answers of the LLM and of the embedding service for each chunk, the chunk
\* rows saved and the list handed to add_chunks.

\* str.lower of the document types used
Lower(str) == IF str = "Memo" THEN "memo" ELSE str

\* MetadataExtractionService._validate_metadata
validate_metadata(metadata) ==
    LET ListOr(key) == IF key \in DOMAIN metadata /\ metadata[key].kind = "list"
                       THEN metadata[key].v ELSE <<>>
        document_type == IF "document_type" \in DOMAIN metadata
                            /\ metadata["document_type"].kind = "str"
                         THEN metadata["document_type"].v ELSE "unknown"
    IN  [keywords |-> ListOr("keywords"), topics |-> ListOr("topics"),
         entities |-> ListOr("entities"), document_type |-> Lower(document_type)]

\* MetadataExtractionService.extract_metadata: the LLM call fails, or its
\* answer does not parse, or it parses to the JSON object response.json
extract_metadata(response) ==
    IF ~response.ok THEN validate_metadata(<<>>)
    ELSE validate_metadata(response.json)

\* a chunk's metadata without the document's permission keys
chunk_metadata_Extracted(metadata, i, context, document_metadata) ==
    [chunk_index |-> i, context |-> context] @@ metadata

\* lines 189-199: the metadata of chunk i
chunk_metadata(metadata, i, context, document_metadata) ==
    [accessLevel |-> GetOr(document_metadata, "accessLevel", "GROUP"),
     groupId |-> Get(document_metadata, "groupId"),
     restrictedToUsers |-> GetOr(document_metadata, "restrictedToUsers", {})]
        @@ [chunk_index |-> i, context |-> context] @@ metadata

\* process_document up to line 181 of _process_chunks_batch: the chunks are
\* made and each gets its context, its extracted metadata and its embedding
\* (FALSE for None)
start_batch(document_metadata, responses, embedding_vectors) ==
    /\ call = NoCall
    /\ call' = [fn |-> "process_document", pc |-> "save", i |-> 1,
                document_metadata |-> document_metadata,
                responses |-> responses,
                metadatas |-> [j \in DOMAIN responses |-> extract_metadata(responses[j])],
                embedding_vectors |-> embedding_vectors,
                saved |-> <<>>, processed_chunks |-> <<>>, handed |-> <<>>]

\* lines 182-214, one turn of the loop: a chunk without embedding is left
\* out, else its row is saved (ok) or save_chunk raises
save_chunk_row(ok) ==
    /\ call.fn = "process_document" /\ call.pc = "save"
    /\ call.i <= Len(call.metadatas)
    /\ IF ~call.embedding_vectors[call.i]
       THEN call' = [call EXCEPT !.i = @ + 1]
       ELSE IF ~ok
       THEN call' = [call EXCEPT !.pc = "failed"]
       ELSE \E m \in {chunk_metadata(call.metadatas[call.i], call.i, "context",
                                     call.document_metadata)} :
                call' = [call EXCEPT !.i = @ + 1,
                                     !.saved = Append(@, [chunk_index |-> call.i, metadata |-> m]),
                                     !.processed_chunks = Append(@, [chunk_index |-> call.i,
                                                                     metadata |-> m])]

\* process_document lines 77-80: the processed chunks, if any, are handed to
\* add_chunks
hand_to_index ==
    /\ call.fn = "process_document" /\ call.pc = "save"
    /\ call.i > Len(call.metadatas)
    /\ call' = [call EXCEPT !.pc = "completed", !.handed = call.processed_chunks]

\* ------------------------------------------------------- specifications

\* HNSWIndex.__init__
Init ==
    /\ nodes = <<>>
    /\ nodeOrder = <<>>
    /\ layers = [l \in Levels |-> {}]
    /\ entry_point = NoneId
    /\ max_layer = 0
    /\ size = 0
    /\ removed = {}
    /\ ret = [raised |-> FALSE, ok |-> TRUE]
    /\ lastSearch = NoSearch
    /\ dimension = 0
    /\ call = NoCall
    /\ MgrInit

\* The graph specification: the builder inserts chunks 1, 2, ... (the rows
\* of one tenant) with any of three directions, any level and any uuid, and
\* chunk 1 may be soft-deleted.
Vectors == {<<1, 0>>, <<0, 1>>, <<1, 1>>}
NoMeta == [accessLevel |-> "PUBLIC"]

AddNode ==
    \E v \in Vectors, lvl \in Levels, id \in NodeIds :
        /\ Cardinality(DOMAIN nodes) < MaxNodes
        /\ add_node(v, Len(nodeOrder) + 1, NoMeta, lvl, id)

MarkDeleted == mark_deleted_by_chunk_id(1)

Next == AddNode \/ MarkDeleted

Spec == Init /\ [][Next]_vars

\* The search specification: chunks of two ids, each with its embedding and
\* any of three metadata dicts, are inserted, soft-deleted and updated, and
\* the index is searched.
SearchVectors == {<<1, 0>>, <<0, 1>>}
ChunkIds == 1..MaxChunkId
Embedding(c) == IF c = 1 THEN <<1, 0>> ELSE <<0, 1>>
Metas ==
    {[accessLevel |-> "PUBLIC"],
     [accessLevel |-> "GROUP", groupId |-> "g1"],
     [accessLevel |-> "MANAGERS", department |-> "eng"]}
MetaUpdates == {[accessLevel |-> "ADMINS"]}
Member == [userId |-> "u1", userRole |-> "MEMBER", userGroupIds |-> {}]
Manager == [userId |-> "u2", userRole |-> "MANAGER", userGroupIds |-> {"g1"}]
Filters ==
    {<<>>,
     [permissions |-> Member],
     [permissions |-> Manager],
     [department |-> [kind |-> "scalar", v |-> "eng"]]}

AddChunk ==
    \E c \in ChunkIds, m \in Metas, lvl \in Levels, id \in 1..MaxSearchNodes :
        /\ Cardinality(DOMAIN nodes) < MaxSearchNodes
        /\ add_node(Embedding(c), c, m, lvl, id)

RemoveChunk == \E c \in ChunkIds : mark_deleted_by_chunk_id(c)

UpdateChunkMetadata ==
    \E c \in ChunkIds, m \in MetaUpdates : update_node_metadata(c, m)

\* search leaves the index as it is, so the searches that follow a search
\* are the searches of the same index: one search per index state is kept
IndexSearch ==
    \E q \in SearchVectors, k \in 1..MaxSearchNodes, ef \in {<<>>, <<1>>},
       f \in Filters, has_query \in BOOLEAN :
        /\ lastSearch = NoSearch
        /\ index_search(q, k, ef, f, has_query, has_query)

NextSearch == AddChunk \/ RemoveChunk \/ UpdateChunkMetadata \/ IndexSearch

SpecSearch == Init /\ [][NextSearch]_vars

\* The metadata specification: chunks are added and soft-deleted, and their
\* nodes' metadata is updated, replaced and stripped of fields; a chunk id
\* may be one that no node carries.
MetaSets == {[accessLevel |-> "RESTRICTED", page |-> 1]}
MetaFields == {{"groupId"}, {"accessLevel", "department"}}

UpdateNodeMetadata ==
    \E c \in ChunkIds, m \in MetaUpdates : update_node_metadata(c, m)

SetNodeMetadata ==
    \E c \in ChunkIds, m \in MetaSets : set_node_metadata(c, m)

DeleteNodeMetadataFields ==
    \E c \in ChunkIds, f \in MetaFields : delete_node_metadata_fields(c, f)

NextMeta ==
    \/ AddChunk
    \/ RemoveChunk
    \/ UpdateNodeMetadata
    \/ SetNodeMetadata
    \/ DeleteNodeMetadataFields

SpecMeta == Init /\ [][NextMeta]_vars

\* The denial specification: chunks of group documents are added and removed
\* and the index is searched by callers of every role, with and without a
\* generic filter, a search query and a user id.
DenialMetas ==
    {[accessLevel |-> "PUBLIC", department |-> "eng"],
     [accessLevel |-> "GROUP", groupId |-> "g1"],
     [accessLevel |-> "GROUP", groupId |-> "g1", department |-> "eng"],
     [accessLevel |-> "GROUP", groupId |-> ""]}
Admin == [userId |-> "u3", userRole |-> "ADMIN", userGroupIds |-> {}]
DenialFilters ==
    {<<>>,
     [permissions |-> Member],
     [permissions |-> Manager],
     [permissions |-> <<>>],
     [permissions |-> Admin, department |-> [kind |-> "scalar", v |-> "eng"]],
     [permissions |-> Manager, department |-> [kind |-> "scalar", v |-> "eng"]],
     [department |-> [kind |-> "scalar", v |-> "eng"]]}

AddGroupChunk ==
    \E c \in ChunkIds, m \in DenialMetas, lvl \in Levels, id \in 1..MaxSearchNodes :
        /\ Cardinality(DOMAIN nodes) < MaxSearchNodes
        /\ add_node(Embedding(c), c, m, lvl, id)

DenialSearch ==
    \E q \in SearchVectors, k \in 1..MaxSearchNodes, f \in DenialFilters,
       has_query \in BOOLEAN, has_user \in BOOLEAN :
        /\ lastSearch = NoSearch
        /\ index_search(q, k, <<>>, f, has_query, has_user)

NextDenial == AddGroupChunk \/ RemoveChunk \/ DenialSearch

SpecDenial == Init /\ [][NextDenial]_vars

\* The dimension specification: vectors of length 2 and 3 are inserted and
\* nodes are hard-removed, as rebuild_index does.
DimVectors == {<<1, 0>>, <<0, 1>>, <<1, 0, 0>>}

AddVector ==
    \E v \in DimVectors, lvl \in Levels, id \in 1..MaxDimNodes :
        /\ Cardinality(DOMAIN nodes) < MaxDimNodes
        /\ add_node(v, Len(nodeOrder) + 1, NoMeta, lvl, id)

RemoveNode ==
    \E id \in DOMAIN nodes :
        /\ size > 0
        /\ remove_node(id)

NextDim == AddVector \/ RemoveNode

SpecDim == Init /\ [][NextDim]_vars

\* The validation specification: the index of the dimension specification,
\* validated once in each of its states; ret holds the report of the
\* validation until the next call on the index.
ValidateIndex ==
    /\ "valid" \notin DOMAIN ret
    /\ ret' = [raised |-> FALSE, ok |-> TRUE] @@ validate_index
    /\ UNCHANGED <<index, removed, lastSearch, dimension, call, mgr>>

NextValidate == AddVector \/ RemoveNode \/ ValidateIndex

SpecValidate == Init /\ [][NextValidate]_vars

\* The service specification: SearchService.search on a tenant's index.
Requests ==
    {<<>>,
     [permissions |-> Member],
     [metadata |-> [department |-> [kind |-> "scalar", v |-> "eng"]]],
     [permissions |-> Manager,
      metadata |-> [department |-> [kind |-> "scalar", v |-> "eng"]]]}
\* the chunk rows' metadata: what ingestion wrote, the permission keys of the
\* document at that time among it
Stored == [c \in ChunkIds |-> [page |-> c, accessLevel |-> "PUBLIC"]]

ServiceSearch ==
    \E qv \in {<<>>} \cup {<<q>> : q \in SearchVectors}, f \in Requests,
       k \in {<<>>, <<1>>}, db \in {"rows", "norows", "fail"} :
        /\ lastSearch = NoSearch
        /\ service_search(qv, f, k, db, Stored)

NextService == AddChunk \/ RemoveChunk \/ ServiceSearch

SpecService == Init /\ [][NextService]_vars

\* The permission specification: satisfies_filters applied once to any
\* metadata and any permissions block.
Roles == {"ADMIN", "MANAGER", "MEMBER"}
AccessLevels == {"PUBLIC", "GROUP", "MANAGERS", "ADMINS", "RESTRICTED", "SECRET"}

\* the dicts over optional keys: keys[i] is absent or takes a value of vals[i]
RECURSIVE Dicts(_, _)
Dicts(keys, vals) ==
    IF keys = <<>> THEN {<<>>}
    ELSE LET rest == Dicts(Tail(keys), Tail(vals))
         IN  rest \cup {(Head(keys) :> v) @@ d : v \in Head(vals), d \in rest}

PermMetas ==
    Dicts(<<"accessLevel", "groupId", "restrictedToUsers">>,
          <<AccessLevels, {"", "g1", "g2"}, {{}, {"u1"}}>>)
PermBlocks ==
    Dicts(<<"userRole", "userGroupIds", "userId">>,
          <<Roles, {{}, {"g1"}}, {"u1", "u2"}>>)

InitPerm ==
    /\ nodes = <<>>
    /\ nodeOrder = <<>>
    /\ layers = [l \in Levels |-> {}]
    /\ entry_point = NoneId
    /\ max_layer = 0
    /\ size = 0
    /\ removed = {}
    /\ ret = [raised |-> FALSE, ok |-> TRUE]
    /\ lastSearch = NoSearch
    /\ dimension = 0
    /\ MgrInit
    /\ \E m \in PermMetas, p \in PermBlocks :
        call = [fn |-> "satisfies_filters", metadata |-> m, permissions |-> p,
                done |-> FALSE, result |-> FALSE, check |-> <<>>]

ApplySatisfiesFilters ==
    /\ ~call.done
    /\ call' = [call EXCEPT !.done = TRUE,
                            !.result = satisfies_filters(call.metadata,
                                           [permissions |-> call.permissions])]
    /\ UNCHANGED <<index, removed, ret, lastSearch, dimension, mgr>>

\* the user of a permissions block as check_permissions reads it
user_permissions(permissions) ==
    LET names == [userRole |-> "user_role", userGroupIds |-> "user_group_ids",
                  userId |-> "user_id"]
    IN  [key \in {names[k] : k \in DOMAIN permissions} |->
            permissions[CHOOSE k \in DOMAIN permissions : names[k] = key]]

\* check_permissions applied to the same metadata and the same user;
\* call.check is <<>> before the call and <<decision>> after it
ApplyCheckPermissions ==
    /\ call.check = <<>>
    /\ call' = [call EXCEPT !.check =
                    <<check_permissions(call.metadata, user_permissions(call.permissions))>>]
    /\ UNCHANGED <<index, removed, ret, lastSearch, dimension, mgr>>

NextPerm == ApplySatisfiesFilters \/ ApplyCheckPermissions

SpecPerm == InitPerm /\ [][NextPerm]_vars

\* The filter specification: satisfies_filters applied once to a node whose
\* metadata has or lacks the key "page", with one generic filter on that key:
\* a scalar, a list, or a map of any of the four operators.
Pages == 1..3
FilterMetas == Dicts(<<"page">>, <<Pages>>)
OperatorMaps ==
    Dicts(<<"$in", "$gte", "$lte", "$ne">>, <<{{1, 3}}, {1, 2}, {2, 3}, {2}>>)

\* the expected value of the call: call.kind says which of the three forms
\* the filter has, and the field of that form holds it
expected_value(c) ==
    IF c.kind = "dict" THEN [kind |-> "dict", ops |-> c.ops]
    ELSE IF c.kind = "list" THEN [kind |-> "list", v |-> c.list]
    ELSE [kind |-> "scalar", v |-> c.scalar]

InitFilter ==
    /\ nodes = <<>>
    /\ nodeOrder = <<>>
    /\ layers = [l \in Levels |-> {}]
    /\ entry_point = NoneId
    /\ max_layer = 0
    /\ size = 0
    /\ removed = {}
    /\ ret = [raised |-> FALSE, ok |-> TRUE]
    /\ lastSearch = NoSearch
    /\ dimension = 0
    /\ MgrInit
    /\ \E m \in FilterMetas, kind \in {"scalar", "list", "dict"} :
       \E scalar \in (IF kind = "scalar" THEN Pages ELSE {2}),
          list \in (IF kind = "list" THEN {{}, {1, 3}} ELSE {{}}),
          ops \in (IF kind = "dict" THEN OperatorMaps ELSE {<<>>}) :
        call = [fn |-> "generic_filter", metadata |-> m, kind |-> kind,
                scalar |-> scalar, list |-> list, ops |-> ops,
                done |-> FALSE, result |-> FALSE]

ApplyGenericFilter ==
    /\ ~call.done
    /\ call' = [call EXCEPT !.done = TRUE,
                            !.result = satisfies_filters(call.metadata,
                                           [page |-> expected_value(call)])]
    /\ UNCHANGED <<index, removed, ret, lastSearch, dimension, mgr>>

NextFilter == ApplyGenericFilter

SpecFilter == InitFilter /\ [][NextFilter]_vars

\* The tenant manager of one tenant T, called by the coroutines of P.
graph == <<index, removed, ret, lastSearch, dimension, call>>

TenantChunks == 1..MaxChunkId

BuildStart(P) ==
    \E p \in P, force \in BOOLEAN : build_start(p, force) /\ UNCHANGED graph

BuildAcquire(P) ==
    \E p \in P : build_acquire(p) /\ UNCHANGED graph

BuildStats(P) ==
    \E p \in P, ok \in BOOLEAN : build_stats(p, ok) /\ UNCHANGED graph

GetChunksAndEmbeddings(P) ==
    \E p \in P : get_chunks_and_embeddings(p) /\ UNCHANGED graph

BuildFetch(P) ==
    \E p \in P, ok \in BOOLEAN : build_fetch(p, ok) /\ UNCHANGED graph

BuildStamp(P) ==
    \E p \in P, ok \in BOOLEAN : build_stamp(p, ok) /\ UNCHANGED graph

AddChunks(P) ==
    \E p \in P, c \in TenantChunks : add_chunks(p, {c}) /\ UNCHANGED graph

RemoveChunks(P) ==
    \E p \in P, c \in TenantChunks : remove_chunks(p, {c}) /\ UNCHANGED graph

UpdateMetadata(P) ==
    \E p \in P, c \in TenantChunks : update_chunk_metadata(p, c) /\ UNCHANGED graph

DestroyIndexes(P) ==
    \E p \in P, persist_to_disk \in BOOLEAN :
        destroy_indexes(p, persist_to_disk) /\ UNCHANGED graph

LoadPersistedIndex(P) ==
    \E p \in P : load_persisted_index(p) /\ UNCHANGED graph

DataChange ==
    \E c \in TenantChunks, embedded \in BOOLEAN :
        data_change(c, embedded) /\ UNCHANGED graph

\* concurrent build_or_update_index calls only
NextBuilds ==
    \/ BuildStart(Tasks)
    \/ BuildAcquire(Tasks)
    \/ BuildStats(Tasks)
    \/ GetChunksAndEmbeddings(Tasks)
    \/ BuildFetch(Tasks)
    \/ BuildStamp(Tasks)
    \/ DataChange

SpecBuilds == Init /\ [][NextBuilds]_vars

\* The same calls under the scheduling of the event loop: each call of the
\* external store returns or fails, so a coroutine suspended on one is
\* resumed (weak fairness of its step); asyncio.Lock wakes its waiters in
\* turn when the lock is released, so a coroutine waiting for the lock gets
\* it if the lock is free again and again (strong fairness of the grant).
FairBuilds ==
    \A p \in Tasks :
        /\ SF_vars(BuildAcquire({p}))
        /\ WF_vars(BuildStats({p}))
        /\ WF_vars(GetChunksAndEmbeddings({p}))
        /\ WF_vars(BuildFetch({p}))
        /\ WF_vars(BuildStamp({p}))

SpecBuildsFair == Init /\ [][NextBuilds]_vars /\ FairBuilds

\* a coroutine that builds and a coroutine that makes the other calls of the
\* manager, concurrently
Builder == {1}

Mutator == {2}

NextTenant ==
    \/ BuildStart(Builder)
    \/ BuildAcquire(Tasks)
    \/ BuildStats(Tasks)
    \/ GetChunksAndEmbeddings(Tasks)
    \/ BuildFetch(Tasks)
    \/ BuildStamp(Tasks)
    \/ AddChunks(Mutator)
    \/ RemoveChunks(Mutator)
    \/ UpdateMetadata(Mutator)
    \/ DestroyIndexes(Mutator)
    \/ LoadPersistedIndex(Mutator)
    \/ DataChange

SpecTenant == Init /\ [][NextTenant]_vars

\* every call of the manager, from one coroutine that awaits each call
\* before it makes the next
NextTenantSeq ==
    \/ BuildStart({1})
    \/ BuildAcquire({1})
    \/ BuildStats({1})
    \/ GetChunksAndEmbeddings({1})
    \/ BuildFetch({1})
    \/ BuildStamp({1})
    \/ AddChunks({1})
    \/ RemoveChunks({1})
    \/ UpdateMetadata({1})
    \/ DestroyIndexes({1})
    \/ LoadPersistedIndex({1})
    \/ DataChange

SpecTenantSeq == Init /\ [][NextTenantSeq]_vars

\* The persistence specification: one coroutine builds the tenant's index,
\* soft-deletes chunks, destroys the index with and without persisting it
\* and loads it back.  History: removed is the set of chunks that were
\* soft-deleted since the last build was called.
graphButRemoved == <<index, ret, lastSearch, dimension, call>>

BuildAgain ==
    \E force \in BOOLEAN :
        build_start(1, force) /\ removed' = {} /\ UNCHANGED graphButRemoved

SoftDelete ==
    \E c \in TenantChunks :
        /\ remove_chunks(1, {c})
        /\ removed' = IF indexes # <<>> /\ indexes[1].hnsw # <<>>
                         /\ \E i \in DOMAIN indexes[1].hnsw[1] :
                               indexes[1].hnsw[1][i].chunk_id = c
                      THEN removed \cup {c} ELSE removed
        /\ UNCHANGED graphButRemoved

NextPersist ==
    \/ BuildAgain
    \/ BuildAcquire({1})
    \/ BuildStats({1})
    \/ GetChunksAndEmbeddings({1})
    \/ BuildFetch({1})
    \/ BuildStamp({1})
    \/ SoftDelete
    \/ DestroyIndexes({1})
    \/ LoadPersistedIndex({1})
    \/ DataChange

SpecPersist == Init /\ [][NextPersist]_vars

\* The searching specification: coroutine 1 builds the tenant's index and
\* soft-deletes chunks, coroutine 2 searches; a build is called between
\* searches.
Searcher == {2}

SearchStart == \E p \in Searcher : search_start(p) /\ UNCHANGED graph

SearchEmbed ==
    \E p \in Searcher, ok \in BOOLEAN : search_embed(p, ok) /\ UNCHANGED graph

SearchEnrich ==
    \E p \in Searcher, ok \in BOOLEAN : search_enrich(p, ok) /\ UNCHANGED graph

BuildBetweenSearches ==
    /\ \A p \in Searcher : task[p].pc = "idle"
    /\ BuildAgain

NextSearching ==
    \/ BuildBetweenSearches
    \/ BuildAcquire(Tasks)
    \/ BuildStats(Tasks)
    \/ GetChunksAndEmbeddings(Tasks)
    \/ BuildFetch(Tasks)
    \/ BuildStamp(Tasks)
    \/ SoftDelete
    \/ SearchStart
    \/ SearchEmbed
    \/ SearchEnrich
    \/ DataChange

SpecSearching == Init /\ [][NextSearching]_vars

\* The ingestion specification: one document goes through the pipeline.
DocumentMetadatas ==
    {[accessLevel |-> a, groupId |-> g, restrictedToUsers |-> r] :
        a \in {"PUBLIC", "GROUP", "RESTRICTED"}, g \in {None, "g1"}, r \in {{}, {"u1"}}}
Responses ==
    {[ok |-> FALSE, json |-> <<>>],
     [ok |-> TRUE, json |-> [document_type |-> [kind |-> "str", v |-> "Memo"],
                             keywords |-> [kind |-> "list", v |-> <<"k">>]]],
     [ok |-> TRUE, json |-> [accessLevel |-> [kind |-> "str", v |-> "PUBLIC"],
                             groupId |-> [kind |-> "str", v |-> "g9"],
                             restrictedToUsers |-> [kind |-> "list", v |-> <<"u9">>],
                             document_type |-> [kind |-> "list", v |-> <<>>]]]}

StartBatch ==
    \E d \in DocumentMetadatas, n \in 1..MaxBatch :
        \E responses \in [1..n -> Responses], embedding_vectors \in [1..n -> BOOLEAN] :
            /\ start_batch(d, responses, embedding_vectors)
            /\ UNCHANGED <<index, removed, ret, lastSearch, dimension, mgr>>

SaveChunkRow ==
    \E ok \in BOOLEAN :
        /\ save_chunk_row(ok)
        /\ UNCHANGED <<index, removed, ret, lastSearch, dimension, mgr>>

HandToIndex ==
    /\ hand_to_index
    /\ UNCHANGED <<index, removed, ret, lastSearch, dimension, mgr>>

NextPipeline == StartBatch \/ SaveChunkRow \/ HandToIndex

SpecPipeline == Init /\ [][NextPipeline]_vars

\* The chunking specification: one document is chunked.
SentenceWords == {150, 900, 2100}
Texts == UNION {[1..n -> SentenceWords] : n \in 0..MaxSentences}
Scores == {2, 5, 8}
LLMResponses ==
    {[kind |-> k, v |-> <<>>] : k \in {"raise", "no_marker", "none", "unparseable"}}
        \cup {[kind |-> "list", v |-> v] : v \in {<<0>>, <<1>>, <<0, 1>>, <<7>>}}

ChunkDocumentStart ==
    \E document_text \in Texts, complexity_score \in Scores :
        /\ chunk_document_start(document_text, complexity_score)
        /\ UNCHANGED <<index, removed, ret, lastSearch, dimension, mgr>>

ChunkDocumentEnd ==
    \E llm_response \in LLMResponses, complexity_score \in Scores :
        /\ chunk_document_end(llm_response, complexity_score)
        /\ UNCHANGED <<index, removed, ret, lastSearch, dimension, mgr>>

NextChunking == ChunkDocumentStart \/ ChunkDocumentEnd

SpecChunking == Init /\ [][NextChunking]_vars

\* ---------------------------------------------------- graph properties

Conn(n, l) == get_connections(nodes[n], l)

DegreeBound(l) == IF l = 0 THEN max_M0 ELSE max_M

\* C6: edge symmetry after every sequence of add_node calls: for all nodes
\* a, b and every layer l, b is in a.connections[l] iff a is in
\* b.connections[l].
C6_EdgeSymmetry ==
    \A a \in DOMAIN nodes, b \in DOMAIN nodes, l \in Levels :
        b \in Conn(a, l) <=> a \in Conn(b, l)

C8_EntryPointAtTop ==
    size > 0 =>
        /\ entry_point \in DOMAIN nodes
        /\ nodes[entry_point].max_layer = max_layer

Live == {n \in DOMAIN nodes : ~nodes[n].is_deleted}

\* the live nodes reachable from the set S over layer-0 edges between live
\* nodes
RECURSIVE LiveReach(_)
LiveReach(S) ==
    LET more == {n \in Live \ S : \E m \in S : n \in Conn(m, 0) \/ m \in Conn(n, 0)}
    IN  IF more = {} THEN S ELSE LiveReach(S \cup more)

\* C9: for every index of size >= 2 reached by add_node calls and soft
\* deletes, the layer-0 graph restricted to non-deleted nodes is connected.
C9_LiveLayer0Connected ==
    (size >= 2 /\ Live # {}) => LiveReach({Min(Live)}) = Live

\* --------------------------------------------------- search properties

\* C1: for every HNSWIndex.search call with a non-empty filter F, every
\* node in the returned list satisfies satisfies_filters(F) on the metadata
\* it holds at the time of the search.
C1_ResultsSatisfyFilter ==
    (lastSearch.op = "search" /\ DOMAIN lastSearch.filters # {}) =>
        \A i \in DOMAIN lastSearch.results :
            satisfies_filters(lastSearch.results[i].metadata, lastSearch.filters)

\* C1 witness: a filtered search returned a node while a live node of the
\* index fails the filter.
C1_Witness ==
    /\ lastSearch.op = "search"
    /\ DOMAIN lastSearch.filters # {}
    /\ lastSearch.results # <<>>
    /\ \E n \in DOMAIN nodes :
        /\ ~nodes[n].is_deleted
        /\ ~satisfies_filters(nodes[n].metadata, lastSearch.filters)

\* the permission rule in the words of the contract
Permitted(metadata, permissions) ==
    LET role == Get(permissions, "userRole")
        level == Get(metadata, "accessLevel")
        group == Get(metadata, "groupId")
    IN  \/ role = "ADMIN"
        \/ level = "PUBLIC"
        \/ /\ level = "GROUP"
           /\ group \notin {None, ""}
           /\ group \in GetOr(permissions, "userGroupIds", {})
        \/ level = "MANAGERS" /\ role \in {"MANAGER", "ADMIN"}
        \/ /\ level = "RESTRICTED"
           /\ Get(permissions, "userId") \in GetOr(metadata, "restrictedToUsers", {})

C3_MissingPermissionsRejected ==
    (lastSearch.op = "service" /\ "permissions" \notin DOMAIN lastSearch.filters) =>
        /\ lastSearch.raised
        /\ lastSearch.error = "InvalidInput"
        /\ lastSearch.out = <<>>

\* C4: once mark_deleted_by_chunk_id has returned for chunk id c, no later
\* HNSWIndex.search returns a node whose chunk_id is c.
C4_DeletedChunkNotReturned ==
    lastSearch.op = "search" =>
        \A i \in DOMAIN lastSearch.results :
            lastSearch.results[i].chunk_id \notin removed

\* C5: after any sequence of add_node calls at most one node carries a given
\* chunk_id, and size counts each chunk_id once.
C5_OneNodePerChunk ==
    /\ \A a \in DOMAIN nodes, b \in DOMAIN nodes :
        nodes[a].chunk_id = nodes[b].chunk_id => a = b
    /\ size <= Cardinality({nodes[n].chunk_id : n \in DOMAIN nodes})

\* C10: add_node with a vector whose dimension differs from that of the
\* first inserted vector fails with an error, in every index state that
\* already holds at least one node.
C10_DimensionMismatchFails ==
    [][(/\ DOMAIN nodes # {}
        /\ \E id \in DOMAIN nodes' \ DOMAIN nodes :
            Len(nodes'[id].vector) # dimension)
       => ret'.raised]_vars

\* ---------------------------------------------------- failure properties

\* C11: if add_node raises, the index is left in its pre-operation state:
\* the nodes map with every node's connections, the layer sets, max_layer,
\* entry_point and size are what they were before the call.
C11_FailedAddLeavesIndex ==
    [][ret'.raised =>
        /\ nodes' = nodes
        /\ layers' = layers
        /\ max_layer' = max_layer
        /\ entry_point' = entry_point
        /\ size' = size]_vars

\* the coroutine p is inside `async with` of build_or_update_index
InBuild(p) == task[p].pc \in {"stats", "fetch", "stamp"}

\* the container, by id, that p found stored at line 71
Observed(p) == IF task[p].pc = "fetch" THEN task[p].seen ELSE task[p].value

\* C12: two concurrent build_or_update_index calls of one tenant are never
\* in the build section (inside `async with`, lines 65-162) together, and a
\* call that reads the stored container (line 71) after the other call's
\* build returned finds the container the other call returned, or a newer one
C12_BuildsSerialize ==
    [][/\ Cardinality({p \in Tasks : InBuild(p)'}) <= 1
       /\ \A p, q \in Tasks :
            (/\ p # q
             /\ task[p].pc = "stats"
             /\ task'[p].pc = "fetch" \/ task'[p].out = "returned"
             /\ task[q].pc = "idle" /\ task[q].op = "build" /\ task[q].out = "returned")
            => /\ Observed(p)' # <<>>
               /\ Observed(p)'[1] >= task[q].value[1]]_vars

\* the first call built container 1 and returned it; the second call, which
\* waited for the lock meanwhile or came later, found it stored
C12_Witness ==
    /\ task[1].op = "build" /\ task[1].out = "returned" /\ task[1].built
    /\ task[1].value = <<1>>
    /\ task[2].op = "build" /\ task[2].pc = "fetch" /\ Observed(2) = <<1>>

\* C13: while a coroutine is between the start and the end of
\* build_or_update_index on the tenant, no other call changes the tenant's
\* stored container or its index
C13_MutatorsExclusive ==
    [][\A p \in Tasks : InBuild(p) /\ task'[p] = task[p] => indexes' = indexes]_vars

\* the step is a call of destroy_indexes by the coroutine 1
DestroyStep ==
    /\ task[1].pc = "idle"
    /\ task'[1].pc = "idle" /\ task'[1].op = "destroy_indexes"
    /\ store' = store

\* C14: when destroy_indexes(T) returns True, has_indexes(T) is False and
\* get_indexes(T) is None; on a tenant with no container it returns False
\* and changes nothing; and a build_or_update_index(T, force_rebuild=True)
\* that returns after it, having found embedded chunks, leaves has_indexes(T)
\* True.  The calls are made one after the other.
C14_DestroyThenRebuild ==
    [][/\ DestroyStep /\ task'[1].value = <<TRUE>>
            => ~has_indexes' /\ get_indexes' = <<>>
       /\ DestroyStep /\ get_indexes = <<>>
            => /\ task'[1].value = <<FALSE>>
               /\ UNCHANGED <<indexes, lock, store, disk, made>>
       /\ (/\ task[1].pc = "stamp" /\ task[1].op = "build" /\ task[1].force
           /\ task[1].data # {}
           /\ task'[1].out = "returned")
            => has_indexes']_vars

\* a container was built, persisted and destroyed, and a forced build that
\* found no container stored and an embedded chunk in the store has returned
C14_Witness ==
    /\ disk # <<>>
    /\ task[1].op = "build" /\ task[1].force /\ task[1].out = "returned"
    /\ task[1].seen = <<>> /\ task[1].data # {}
    /\ has_indexes

\* C20: a build_or_update_index(T, force_rebuild=False) that follows a
\* build_or_update_index(T) which returned, with no data change since that
\* return, creates no container and returns the stored one
C20_SecondBuildReturnsStored ==
    [][(/\ task[1].pc = "stats" /\ task[1].op = "build" /\ ~task[1].force
        /\ task[1].prev = <<store.now>>
        /\ task'[1].pc # "stats" /\ task'[1].out # "raised")
       => /\ task'[1].pc = "idle" /\ task'[1].out = "returned"
          /\ ~task'[1].built
          /\ made' = made
          /\ indexes' = indexes
          /\ task'[1].value = <<indexes[1].cid>>]_vars

PermissionKeys == {"accessLevel", "groupId", "restrictedToUsers"}

\* C16: in every result of SearchService.search the permission keys
\* accessLevel, groupId and restrictedToUsers of the result's metadata are
\* those of the index node the filter was evaluated on: stored chunk
\* metadata does not shadow them
C16_PermissionKeysFromIndex ==
    lastSearch.op = "service" =>
        \A i \in DOMAIN lastSearch.out :
            \E j \in DOMAIN lastSearch.results :
                /\ lastSearch.results[j].chunk_id = lastSearch.out[i].chunk_id
                /\ \A key \in PermissionKeys :
                       /\ key \in DOMAIN lastSearch.out[i].metadata
                              <=> key \in DOMAIN lastSearch.results[j].metadata
                       /\ key \in DOMAIN lastSearch.out[i].metadata
                              => lastSearch.out[i].metadata[key]
                                     = lastSearch.results[j].metadata[key]

\* C17: check_permissions gives the decision of the permissions block of
\* satisfies_filters for every node metadata, a missing or unknown
\* accessLevel included, and every user
C17_CheckPermissionsAgrees ==
    (call.fn = "satisfies_filters" /\ call.done /\ call.check # <<>>) =>
        (call.check[1] <=> call.result)

\* C19: every chunk row the pipeline saves and every chunk it hands to
\* add_chunks has the document's accessLevel, groupId and restrictedToUsers
\* in its metadata, whatever the metadata extraction returned for the chunk
C19_ChunksInheritPermissions ==
    call.fn = "process_document" =>
        LET Inherits(chunk) ==
                /\ PermissionKeys \subseteq DOMAIN chunk.metadata
                /\ \A key \in PermissionKeys :
                       chunk.metadata[key] = call.document_metadata[key]
        IN  /\ \A j \in DOMAIN call.saved : Inherits(call.saved[j])
            /\ \A j \in DOMAIN call.handed : Inherits(call.handed[j])

\* a chunk whose extraction returned permission keys of its own was saved
\* and handed to add_chunks
C19_Witness ==
    /\ call.fn = "process_document"
    /\ call.pc = "completed"
    /\ \E j \in DOMAIN call.handed :
        /\ "accessLevel" \in DOMAIN call.responses[call.handed[j].chunk_index].json
        /\ call.handed[j] \in Range(call.saved)

\* C18: every chunk that chunk_document returns has at most 2000 words,
\* whatever the sentence lengths of the document and whatever the LLM did
\* (a list of splits, none, an answer that does not parse, a failed call)
C18_ChunksWithinMaxWords ==
    (call.fn = "chunk_document" /\ call.pc = "done") =>
        \A i \in DOMAIN call.chunks : count_words(call.chunks[i]) <= max_words


\* ------------------------------------------------- removal of a node

\* C24: after remove_node(n) on an index reached by add_node and remove_node
\* calls, no remaining node has n in its connections at any layer, n is in no
\* layer set and not in the nodes map, and if n was the entry point and nodes
\* remain, entry_point is a remaining node with the highest max_layer and
\* the index's max_layer is that node's max_layer.
C24_RemoveNodeCleans ==
    [][\A n \in DOMAIN nodes \ DOMAIN nodes' :
          /\ \A m \in DOMAIN nodes' : \A l \in DOMAIN nodes'[m].connections :
                n \notin nodes'[m].connections[l]
          /\ \A l \in DOMAIN layers' : n \notin layers'[l]
          /\ (n = entry_point /\ DOMAIN nodes' # {}) =>
                /\ entry_point' \in DOMAIN nodes'
                /\ \A m \in DOMAIN nodes' :
                      nodes'[m].max_layer <= nodes'[entry_point'].max_layer
                /\ max_layer' = nodes'[entry_point'].max_layer]_vars


\* ------------------------------------------------- metadata of a node

\* the step is a call of one of the three metadata methods for chunk c
MetadataCall(c) ==
    \/ \E m \in MetaUpdates : update_node_metadata(c, m)
    \/ \E m \in MetaSets : set_node_metadata(c, m)
    \/ \E f \in MetaFields : delete_node_metadata_fields(c, f)

\* C26: update_node_metadata, set_node_metadata and
\* delete_node_metadata_fields change nothing but the metadata of a node with
\* the given chunk_id: every node's connections, the layer sets, entry_point,
\* max_layer, size and the deleted flags are unchanged; when no node has
\* that chunk_id they return False and change no state at all.
C26_MetadataOnly ==
    [][\A c \in ChunkIds : MetadataCall(c) =>
          /\ UNCHANGED <<nodeOrder, layers, entry_point, max_layer, size>>
          /\ DOMAIN nodes' = DOMAIN nodes
          /\ \A n \in DOMAIN nodes :
                /\ nodes'[n].connections = nodes[n].connections
                /\ nodes'[n].is_deleted = nodes[n].is_deleted
                /\ nodes'[n].max_layer = nodes[n].max_layer
                /\ nodes'[n].vector = nodes[n].vector
                /\ nodes'[n].chunk_id = nodes[n].chunk_id
                /\ nodes'[n].metadata # nodes[n].metadata => nodes[n].chunk_id = c
          /\ NodeOfChunk(c) = NoneId =>
                /\ ~ret'.ok
                /\ UNCHANGED <<index, removed, dimension, mgr>>]_vars

\* a connected, soft-deleted node whose metadata was replaced and then
\* updated, next to a node that kept the metadata it was added with
C26_Witness ==
    \E n, m \in DOMAIN nodes :
        /\ nodes[n].is_deleted
        /\ nodes[n].connections[0] = {m}
        /\ nodes[n].metadata = [accessLevel |-> "ADMINS", page |-> 1]
        /\ nodes[m].metadata \in Metas


\* ------------------------------------------------- generic filters

\* the value passes every operator the map contains
HoldsEveryOperator(actual_value, ops) ==
    /\ "$in" \in DOMAIN ops => actual_value \in ops["$in"]
    /\ "$gte" \in DOMAIN ops => actual_value >= ops["$gte"]
    /\ "$lte" \in DOMAIN ops => actual_value <= ops["$lte"]
    /\ "$ne" \in DOMAIN ops => actual_value # ops["$ne"]

\* C25: for a non-permission filter key, satisfies_filters passes the node
\* iff a scalar expected value equals the node's value, a list expected
\* value contains it, and an operator map holds for every operator it
\* contains, so that a map with $gte and $lte passes only the values inside
\* the range; a key absent from the node's metadata is a deny.
C25_GenericFilter ==
    (call.fn = "generic_filter" /\ call.done) =>
        call.result =
            /\ "page" \in DOMAIN call.metadata
            /\ IF call.kind = "dict"
               THEN HoldsEveryOperator(call.metadata["page"], call.ops)
               ELSE IF call.kind = "list"
               THEN call.metadata["page"] \in call.list
               ELSE call.metadata["page"] = call.scalar


\* ------------------------------------------------- validation of an index

\* C23: validate_index reports valid=True only for an index in which every
\* node is a member of every layer 0..node.max_layer, every edge is
\* symmetric, no connection names a node absent from the index, and the
\* entry point is present and has the maximum max_layer.
C23_ValidMeansWellFormed ==
    ("valid" \in DOMAIN ret /\ ret.valid) =>
        /\ \A n \in DOMAIN nodes : \A l \in 0..nodes[n].max_layer : n \in layers[l]
        /\ \A n \in DOMAIN nodes : \A l \in DOMAIN nodes[n].connections :
              \A c \in nodes[n].connections[l] :
                 /\ c \in DOMAIN nodes
                 /\ n \in get_connections(nodes[c], l)
        /\ entry_point \in DOMAIN nodes
        /\ \A n \in DOMAIN nodes : nodes[n].max_layer <= nodes[entry_point].max_layer


\* ------------------------------------------------- failed builds

\* the id of the stored container, <<>> when none is stored
StoredCid(idx) == IF idx = <<>> THEN <<>> ELSE <<idx[1].cid>>

\* C27: if build_or_update_index(T) raises at any step, a failure of
\* update_last_index_time included, the container stored for T is the one
\* that was stored before the call, or none if there was none.  The calls
\* are made one after the other, so the container the call found at line 71
\* is the one stored before it.
C27_FailedBuildKeepsContainer ==
    [][\A p \in Tasks :
          (/\ InBuild(p) /\ task[p].op = "build"
           /\ task'[p].pc = "idle" /\ task'[p].out = "raised")
          => IF task[p].pc = "stats" THEN indexes' = indexes
             ELSE StoredCid(indexes') = task[p].seen]_vars


\* ------------------------------------------------- release of the lock

\* C28: every build_or_update_index call that acquires the tenant's build
\* lock eventually releases it, whether it returns early, completes the
\* build or raises, provided each external store call returns or fails; so
\* a build_or_update_index waiting for the lock of the same tenant
\* eventually gets it.
C28_LockReleased ==
    \A p \in Tasks :
        /\ (p \in lock) ~> (p \notin lock)
        /\ (task[p].pc = "acquire") ~> (p \in lock)

\* a build that raised after it had stored its container has released the
\* lock, and the other coroutine, which called during that build, holds it
C28_Witness ==
    \E p, q \in Tasks :
        /\ p # q
        /\ task[p].pc = "idle" /\ task[p].op = "build"
        /\ task[p].out = "raised" /\ task[p].built
        /\ lock = {q}


\* ------------------------------------------------- chunks added during a build

\* chunk c is a node of the tenant's stored index
IsNode(c) ==
    /\ indexes # <<>>
    /\ indexes[1].hnsw # <<>>
    /\ \E i \in DOMAIN indexes[1].hnsw[1] : indexes[1].hnsw[1][i].chunk_id = c

\* C29: a chunk added by add_chunks(T, ...) while a build_or_update_index(T)
\* is in flight is a node of T's index once both calls have finished: the
\* container stored by the build does not discard the chunk.  Coroutine 2
\* made the add_chunks call, coroutine 1 the build.
C29_ConcurrentAddKept ==
    (/\ task[2].pc = "idle" /\ task[2].op = "add_chunks" /\ task[2].out = "returned"
     /\ 1 \in task[2].during
     /\ task[1].pc = "idle" /\ task[1].out = "returned")
    => \A c \in task[2].chunks : IsNode(c)


\* C22: when add_chunks(T, chunks) returns True, every chunk of `chunks`
\* that has an embedding is a node of tenant T's current HNSW index, both
\* when T had no container before the call and when T's container was
\* created by a build that found no embedded chunks.  The calls are made one
\* after the other.
C22_AddedChunksAreNodes ==
    (task[1].pc = "idle" /\ task[1].op = "add_chunks" /\ task[1].out = "returned")
    => \A c \in task[1].chunks : IsNode(c)


\* ------------------------------------------------- persisted indexes

\* a search of T's index can return chunk c: a node of the stored index
\* carries it and is not soft-deleted
Searchable(c) ==
    /\ indexes # <<>>
    /\ indexes[1].hnsw # <<>>
    /\ \E i \in DOMAIN indexes[1].hnsw[1] :
          /\ indexes[1].hnsw[1][i].chunk_id = c
          /\ ~indexes[1].hnsw[1][i].is_deleted

\* C30: a chunk soft-deleted through remove_chunks(T, [c]) never reappears
\* in T's search results after any later sequence of destroy_indexes(T,
\* persist_to_disk true or false) and load_persisted_index(T): the index
\* loaded from disk never predates the deletion.
C30_DeletedStaysDeleted ==
    \A c \in removed : ~Searchable(c)


\* ------------------------------------------------- searches and removals

\* C21: a SearchService.search running concurrently with remove_chunks(T,
\* [c]) never returns chunk c once the removal has completed: if
\* remove_chunks finished before the search returned, c is not in the
\* returned results.  Coroutine 2 searches; removed holds the chunks whose
\* remove_chunks call has finished.
C21_RemovedNotReturned ==
    [][(/\ task[2].op = "search" /\ task[2].pc \in {"embed", "enrich"}
        /\ task'[2].pc = "idle")
       => \A c \in removed : c \notin task'[2].results]_vars

====
